---- MODULE Spec2Model ----
(***************************************************************************)
(* The three backtest simulators of KyzerEyeStockLabs:                     *)
(*   W  WyckoffBacktestEngine.run_backtest   (services/wyckoff_backtest.py)*)
(*   E  EMATradingEngine.run_analysis        (services/ema_trading.py)     *)
(*   S  StopLossOptimizer._backtest_with_stop_loss                         *)
(*                                           (services/stop_loss_optimizer)*)
(* One behaviour is one run of one simulator over one bar series.  The     *)
(* series is the run's input: its first bars (the lookback, never scanned) *)
(* are fixed by Init and each scan step draws the next bar before it       *)
(* processes it, so a behaviour that finishes after n bars is the run over *)
(* the n-bar series.                                                       *)
(*                                                                         *)
(* Further specifications over the same variables:                         *)
(*   SpecOpt     StopLossOptimizer.optimize_stop_loss: calendar buckets,   *)
(*               the optimum of each bucket and the overall optimum        *)
(*   SpecShared  two calls of run_backtest on one WyckoffBacktestEngine,   *)
(*               their bar scans interleaved                               *)
(*   SpecSweep   the sweeps over all symbols: routes/backtest_routes.py,   *)
(*               routes/stop_loss_routes.py, run_wyckoff_backtest.py       *)
(*   SpecPullback  run_analysis (E) on a series whose lookback bars hold   *)
(*               a rally and a pullback                                    *)
(*   SpecAnalysis  WyckoffAnalysisService.analyze_wyckoff_phases           *)
(*               (services/wyckoff_analysis.py): trading ranges, their     *)
(*               phases, the current phase and the signals                 *)
(*                                                                         *)
(* Numbers: prices and money are integers (dollars); dates are day         *)
(* numbers; ratios the code holds in floats are held in fixed point        *)
(* (volume ratios and EMAs in 1/1000, percentages as integers).            *)
(***************************************************************************)
EXTENDS Integers, Sequences, FiniteSets, TLC

VARIABLES
    sim,                  \* which program this run is: "W", "E", "S", "A" or a sweep
    pc,                   \* the position in it: "start", "scan", "exec", "done", "error", ...
    df,                   \* the bar series read so far
    signals,              \* signals list
    current_position,     \* <<>> (None) or <<position>>
    trades,               \* closed trades, in the order they were appended
    current_capital,      \* W: self.current_capital  E: available_capital  S: capital
    equity_curve,         \* equity_curve list
    performance_metrics,  \* <<>> until the run returns, then <<metrics>>
    in_trade,             \* E _generate_signals: in_trade
    current_trailing_stop,      \* E _generate_signals: <<>> (None) or <<stop>>
    highest_price_since_entry,  \* E _generate_signals: <<>> (None) or <<price>>
    sig_i,                \* E, S: index of the next signal of "for signal in signals"
    stop_loss_pct,        \* S: the candidate percentage of this backtest
    calls,                \* calls of run_backtest in progress on one engine: their locals
    symbols,              \* a sweep's symbols: what the database holds for each
    sym_i,                \* a sweep: index of the symbol of the current iteration
    all_results,          \* a sweep: results / results['symbols'] / all_results
    printed,              \* the report script: symbols it printed an error for
    response              \* a sweep: "none" until it ends, then how it ended

vars == <<sim, pc, df, signals, current_position, trades, current_capital,
          equity_curve, performance_metrics, in_trade, current_trailing_stop,
          highest_price_since_entry, sig_i, stop_loss_pct,
          calls, symbols, sym_i, all_results, printed, response>>

\* The state of the callers of the engines: concurrent calls and sweeps.
callerVars == <<calls, symbols, sym_i, all_results, printed, response>>

genVars == <<in_trade, current_trailing_stop, highest_price_since_entry>>

\* ------------------------------------------------------------------ bounds
\* Bars scanned by the phase-based simulator on a series that is not flat.
MaxScanW == 4
\* Length of the flat series of the flat-series scenario.
FlatLen == 100
\* Bars scanned by the moving-average simulator.
MaxScanE == 5
\* Bars scanned by the signal generator of the stop-loss optimizer.
MaxScanS == 5
\* Bars scanned before the stop-loss optimizer buckets the signals.
MaxScanO == 6
\* Bars scanned by each of two calls of run_backtest that share an engine.
MaxScanShared == 2
\* Symbols of a sweep.
MaxSymbols == 2
\* Bars appended to the series handed to the analysis service.
MaxBarsA == 3

\* ------------------------------------------------------- program constants
initial_capital == 100000
position_size_percent == 95
stop_loss_percent == 8
take_profit_percent == 15
max_trade_duration == 60
\* for i in range(30, len(df))
LookbackW == 30
\* df.tail(20), rolling(window=20)
Window == 20
\* WyckoffAnalysisService: spring_threshold = 0.05, in percent; window_size = 30
spring_threshold == 5
window_size == 30
ema_21_period == 21
ema_50_period == 50
atr_period == 14
atr_multiplier == 2
\* for i in range(50, len(df)); rolling(window=50)
LookbackS == 50
\* _calculate_rsi(df['close'], 14)
rsi_period == 14
\* stop_loss_routes.optimize_stop_loss_all: rows a symbol needs
min_data_rows == 100
\* stop_loss_optimizer.py line 53, in percent
test_intervals == {2, 3, 4, 5, 6, 7, 8, 9, 10, 12, 15, 18, 20}

\* ------------------------------------------------------------------ helpers
Abs(x) == IF x < 0 THEN 0 - x ELSE x

\* s[lo] + ... + s[hi]
RECURSIVE SumRange(_, _, _)
SumRange(s, lo, hi) == IF lo > hi THEN 0 ELSE s[lo] + SumRange(s, lo + 1, hi)
SumSeq(s) == SumRange(s, 1, Len(s))

Last(s) == s[Len(s)]

\* The indices of s whose element satisfies Test, as a count.
CountIf(s, Test(_)) == Cardinality({k \in 1..Len(s) : Test(s[k])})

Bar(d, o, h, l, c, v) ==
    [date |-> d, open |-> o, high |-> h, low |-> l, close |-> c, volume |-> v]

\* A series is flat when every bar has the open/high/low/close/volume of the first.
IsFlat(s) ==
    \A k \in 1..Len(s) :
        /\ s[k].open = s[1].open /\ s[k].high = s[1].high /\ s[k].low = s[1].low
        /\ s[k].close = s[1].close /\ s[k].volume = s[1].volume

\* ------------------------------------------------- W: _prepare_data columns
\* The row _prepare_data makes of bar b when the rows before it are s.
\* volume_sma_20 = rolling(20).mean() is NaN before the 20th row, and so is
\* volume_ratio = volume / volume_sma_20 (in 1/1000); 0/0 is NaN too.
RECURSIVE SumVolume(_, _, _)
SumVolume(s, lo, hi) == IF lo > hi THEN 0 ELSE s[lo].volume + SumVolume(s, lo + 1, hi)
VolumeSum20(s, b) == b.volume + SumVolume(s, Len(s) - Window + 2, Len(s))

PrepareRow(s, b) ==
    LET valid == Len(s) + 1 >= Window /\ VolumeSum20(s, b) > 0
    IN  [date |-> b.date, open |-> b.open, high |-> b.high, low |-> b.low,
         close |-> b.close, volume |-> b.volume,
         volume_ratio_nan |-> ~valid,
         volume_ratio |-> IF valid
                          THEN (b.volume * Window * 1000) \div VolumeSum20(s, b)
                          ELSE 0]

\* The lookback bars: a flat daily series at 100 with volume 10.
BaseBar(d) == Bar(d, 100, 100, 100, 100, 10)
PrefixW(n) ==
    [k \in 1..n |->
        [date |-> k, open |-> 100, high |-> 100, low |-> 100, close |-> 100,
         volume |-> 10, volume_ratio_nan |-> k < Window,
         volume_ratio |-> IF k < Window THEN 0 ELSE 1000]]

\* ------------------------------------------------ W: _analyze_current_phase
\* recent_data = df.tail(20): rows Len-19 .. Len
RecentRows(s) == {k \in 1..Len(s) : k > Len(s) - Window}
RECURSIVE SumVolumeRatio(_, _, _)
SumVolumeRatio(s, lo, hi) ==
    IF lo > hi THEN 0 ELSE s[lo].volume_ratio + SumVolumeRatio(s, lo + 1, hi)
VolumeTrendIsNaN(s) == \A k \in RecentRows(s) : s[k].volume_ratio_nan
\* recent_data['volume_ratio'].mean(), NaN rows skipped; in 1/1000.
VolumeTrend(s) ==
    IF VolumeTrendIsNaN(s) THEN 0
    ELSE SumVolumeRatio(s, Len(s) - Window + 1, Len(s))
            \div Cardinality({k \in RecentRows(s) : ~s[k].volume_ratio_nan})

\* price_trend = (close[-1] - close[0]) / close[0] of the 20-row window, kept
\* as the pair (difference, base) and compared by cross-multiplication.
PriceDiff(s) == s[Len(s)].close - s[Len(s) - Window + 1].close
PriceBase(s) == s[Len(s) - Window + 1].close

\* The if/elif chain of lines 257-271; branch names the arm taken.
PhaseBranch(s) ==
    LET d == PriceDiff(s)  b == PriceBase(s)  vt == VolumeTrend(s)
        nan == VolumeTrendIsNaN(s)
    IN  IF Abs(d) * 100 < 2 * b /\ ~nan /\ vt > 1200 THEN "accumulation"
        ELSE IF Abs(d) * 100 < 2 * b /\ ~nan /\ vt < 800 THEN "distribution"
        ELSE IF d * 100 > 5 * b /\ ~nan /\ vt > 1100 THEN "markup"
        ELSE IF d * 100 < 0 - 5 * b THEN "markdown"
        ELSE "else"

PhaseOfBranch(br) ==
    CASE br = "accumulation" -> "Accumulation"
      [] br = "distribution" -> "Distribution"
      [] br = "markup"       -> "Markup"
      [] br = "markdown"     -> "Markdown"
      [] br = "else"         -> "Markup"

ConfidenceOfBranch(br) ==
    CASE br = "accumulation" -> 80
      [] br = "distribution" -> 80
      [] br = "markup"       -> 90
      [] br = "markdown"     -> 90
      [] br = "else"         -> 60

\* _analyze_current_phase(current_data); len(df) >= 20 always holds in the scan.
AnalyzeCurrentPhase(s) ==
    [phase |-> PhaseOfBranch(PhaseBranch(s)),
     branch |-> PhaseBranch(s),
     confidence |-> ConfidenceOfBranch(PhaseBranch(s)),
     volume_trend |-> VolumeTrend(s),
     price |-> Last(s).close]

\* A table whose Distribution row sells on low volume.
SignalActionSellOnLowVolume(phase, volume_trend) ==
    CASE phase = "Accumulation" -> IF volume_trend > 1500 THEN "BUY" ELSE "HOLD"
      [] phase = "Distribution" -> IF volume_trend < 1500 THEN "SELL" ELSE "HOLD"
      [] phase = "Markup"       -> "BUY"
      [] phase = "Markdown"     -> "SELL"
      [] OTHER                  -> "HOLD"

\* ------------------------------------------------------ W: _generate_signal
SignalAction(phase, volume_trend) ==
    CASE phase = "Accumulation" -> IF volume_trend > 1500 THEN "BUY" ELSE "HOLD"
      [] phase = "Distribution" -> IF volume_trend > 1500 THEN "SELL" ELSE "HOLD"
      [] phase = "Markup"       -> "BUY"
      [] phase = "Markdown"     -> "SELL"
      [] OTHER                  -> "HOLD"

SignalReasoning(phase, volume_trend) ==
    CASE phase = "Accumulation" ->
            IF volume_trend > 1500
            THEN "High volume accumulation - institutional buying"
            ELSE "Accumulation phase - waiting for volume confirmation"
      [] phase = "Distribution" ->
            IF volume_trend > 1500
            THEN "High volume distribution - institutional selling"
            ELSE "Distribution phase - waiting for volume confirmation"
      [] phase = "Markup"   -> "Strong uptrend with volume confirmation"
      [] phase = "Markdown" -> "Downtrend phase - avoid long positions"
      [] OTHER              -> "Markup phase - uptrend continuation"

GenerateSignal(pa, date) ==
    [date |-> date,
     phase |-> pa.phase,
     branch |-> pa.branch,
     action |-> SignalAction(pa.phase, pa.volume_trend),
     price |-> pa.price,
     volume_ratio |-> pa.volume_trend,
     confidence |-> pa.confidence,
     reasoning |-> SignalReasoning(pa.phase, pa.volume_trend)]

\* A share count taken from the whole capital instead of its 95%.
EntrySharesAllCapital(capital, price) == capital \div price

\* ------------------------------------------------------ W: _enter_position
\* shares = int(current_capital * position_size_percent / signal.price)
EntryShares(capital, price) == (capital * position_size_percent) \div (price * 100)

\* An entry that is dated one day after the signal bar.
EnterPositionNextDay(signal, capital) ==
    IF signal.action = "HOLD" THEN <<>>
    ELSE IF EntryShares(capital, signal.price) <= 0 THEN <<>>
    ELSE <<[entry_date |-> signal.date + 1,
            entry_price |-> signal.price,
            action |-> signal.action,
            shares |-> EntryShares(capital, signal.price),
            entry_phase |-> signal.phase]>>
\* <<>> for None, else <<the open Trade>>.
EnterPosition(signal, capital) ==
    IF signal.action = "HOLD" THEN <<>>
    ELSE IF EntryShares(capital, signal.price) <= 0 THEN <<>>
    ELSE <<[entry_date |-> signal.date,
            entry_price |-> signal.price,
            action |-> signal.action,
            shares |-> EntryShares(capital, signal.price),
            entry_phase |-> signal.phase]>>

\* ------------------------------------------------- W: _should_exit_position
DurationElapsed(p, signal) == signal.date - p.entry_date >= max_trade_duration

StopLossBreached(p, price) ==
    IF p.action = "BUY"
    THEN price * 100 <= p.entry_price * (100 - stop_loss_percent)
    ELSE price * 100 >= p.entry_price * (100 + stop_loss_percent)

TakeProfitReached(p, price) ==
    IF p.action = "BUY"
    THEN price * 100 >= p.entry_price * (100 + take_profit_percent)
    ELSE price * 100 <= p.entry_price * (100 - take_profit_percent)

OpposingPhase(p, signal) ==
    \/ p.action = "BUY" /\ signal.phase = "Distribution"
    \/ p.action = "SELL" /\ signal.phase = "Accumulation"

\* An exit test with a fifth trigger: a signal whose action opposes the position.
ShouldExitOnOppositeSignal(p, price, signal) ==
    \/ DurationElapsed(p, signal)
    \/ StopLossBreached(p, price)
    \/ TakeProfitReached(p, price)
    \/ OpposingPhase(p, signal)
    \/ signal.action # "HOLD" /\ signal.action # p.action

ShouldExitPosition(p, price, signal) ==
    \/ DurationElapsed(p, signal)
    \/ StopLossBreached(p, price)
    \/ TakeProfitReached(p, price)
    \/ OpposingPhase(p, signal)

\* ------------------------------------------------------ W: _close_position
PositionPnl(p, price) ==
    IF p.action = "BUY" THEN (price - p.entry_price) * p.shares
    ELSE (p.entry_price - price) * p.shares

\* A close that dates the exit one day after the bar it happens on.
ClosePositionNextDay(p, price, signal) ==
    [entry_date |-> p.entry_date,
     exit_date |-> signal.date + 1,
     entry_price |-> p.entry_price,
     exit_price |-> price,
     action |-> p.action,
     shares |-> p.shares,
     entry_phase |-> p.entry_phase,
     exit_phase |-> signal.phase,
     pnl |-> PositionPnl(p, price),
     duration_days |-> signal.date - p.entry_date,
     exit_reasoning |-> signal.reasoning]

ClosePosition(p, price, signal) ==
    [entry_date |-> p.entry_date,
     exit_date |-> signal.date,
     entry_price |-> p.entry_price,
     exit_price |-> price,
     action |-> p.action,
     shares |-> p.shares,
     entry_phase |-> p.entry_phase,
     exit_phase |-> signal.phase,
     pnl |-> PositionPnl(p, price),
     duration_days |-> signal.date - p.entry_date,
     exit_reasoning |-> signal.reasoning]

\* ------------------------------------------- W: _calculate_portfolio_value
PortfolioValue(pos, capital, price) ==
    IF pos = <<>> THEN capital ELSE capital + PositionPnl(pos[1], price)

\* ------------------------------------ W: _calculate_performance_metrics
Pnls(ts) == [k \in 1..Len(ts) |-> ts[k].pnl]
\* A winner test that also takes the trades that broke even.
IsWinOrEven(t) == t.pnl >= 0
IsWin(t) == t.pnl > 0
IsLoss(t) == t.pnl < 0
WinPnls(ts) == [k \in 1..Len(ts) |-> IF ts[k].pnl > 0 THEN ts[k].pnl ELSE 0]
LossPnls(ts) == [k \in 1..Len(ts) |-> IF ts[k].pnl < 0 THEN ts[k].pnl ELSE 0]

\* A ratio the code holds in a float: inf for float('inf'), else num / den.
Ratio(n, d) == [inf |-> FALSE, num |-> n, den |-> d]
Infinite == [inf |-> TRUE, num |-> 0, den |-> 1]

\* profit_factor = gross_profit / gross_loss if gross_loss > 0
\*                 else float('inf') if gross_profit > 0 else 0
ProfitFactorW(ts) ==
    LET gross_profit == SumSeq(WinPnls(ts))
        gross_loss == Abs(SumSeq(LossPnls(ts)))
    IN  IF gross_loss > 0 THEN Ratio(gross_profit, gross_loss)
        ELSE IF gross_profit > 0 THEN Infinite
        ELSE Ratio(0, 1)

\* The drawdown loop of lines 514-525 over equity values vs, from index k on,
\* with the running peak and maximum; the result is in 1/10 percent.
RECURSIVE DrawdownLoopW(_, _, _, _)
DrawdownLoopW(vs, k, peak, maxdd) ==
    IF k > Len(vs) THEN maxdd
    ELSE LET pk == IF vs[k] > peak THEN vs[k] ELSE peak
             dd == ((pk - vs[k]) * 1000) \div pk
         IN  DrawdownLoopW(vs, k + 1, pk, IF dd > maxdd THEN dd ELSE maxdd)

EquityValues(curve) == [k \in 1..Len(curve) |-> curve[k].value]

MaxDrawdownPercentW(curve) ==
    DrawdownLoopW(EquityValues(curve), 1, EquityValues(curve)[1], 0)

CalculatePerformanceMetricsW(ts, curve) ==
    IF ts = <<>>
    THEN [total_return |-> 0, total_return_percent |-> 0, total_trades |-> 0,
          winning_trades |-> 0, losing_trades |-> 0, win_rate |-> 0,
          avg_win |-> 0, avg_loss |-> 0, profit_factor |-> Ratio(0, 1),
          max_drawdown |-> 0]
    ELSE LET final_value == IF curve # <<>> THEN Last(curve).value ELSE initial_capital
         IN  [total_return |-> final_value - initial_capital,
              total_return_percent |->
                  ((final_value - initial_capital) * 1000) \div initial_capital,
              final_value |-> final_value,
              total_trades |-> Len(ts),
              winning_trades |-> CountIf(ts, IsWin),
              losing_trades |-> CountIf(ts, IsLoss),
              win_rate |-> (CountIf(ts, IsWin) * 1000) \div Len(ts),
              avg_win |-> IF CountIf(ts, IsWin) > 0
                          THEN SumSeq(WinPnls(ts)) \div CountIf(ts, IsWin) ELSE 0,
              avg_loss |-> IF CountIf(ts, IsLoss) > 0
                           THEN SumSeq(LossPnls(ts)) \div CountIf(ts, IsLoss) ELSE 0,
              profit_factor |-> ProfitFactorW(ts),
              max_drawdown_percent |-> MaxDrawdownPercentW(curve)]

\* ---------------------------------------------------------------- W: inputs
\* <<close, volume, days since the previous bar>> of the bars a scan step may read.
WBarChoices ==
    {<<50, 10, 1>>, <<94, 10, 1>>, <<100, 10, 1>>, <<120, 10, 1>>,
     <<100, 0, 1>>, <<100, 50, 1>>, <<100, 200, 1>>, <<120, 50, 1>>,
     <<100, 10, 60>>, <<110, 57, 1>>}

NextBarsW(s) ==
    IF Len(s) - LookbackW < MaxScanW
    THEN {PrepareRow(s, Bar(Last(s).date + c[3], c[1], c[1], c[1], c[1], c[2])) :
             c \in WBarChoices}
    ELSE IF IsFlat(s) /\ Len(s) < FlatLen
    THEN {PrepareRow(s, BaseBar(Last(s).date + 1))}
    ELSE {}

\* --------------------------------------------------------- W: run_backtest
\* Lines 116-125: _prepare_data, empty lists, capital reset.
WStart ==
    /\ sim = "W" /\ pc = "start"
    /\ pc' = "scan"
    /\ current_capital' = initial_capital
    /\ current_position' = <<>>
    /\ trades' = <<>> /\ signals' = <<>> /\ equity_curve' = <<>>
    /\ UNCHANGED <<sim, df, performance_metrics, genVars, sig_i, stop_loss_pct>>
    /\ UNCHANGED callerVars

\* The locals of run_backtest and the capital of the engine, as one record.
StateW(s, sigs, pos, ts, capital, curve) ==
    [df |-> s, signals |-> sigs, current_position |-> pos, trades |-> ts,
     current_capital |-> capital, equity_curve |-> curve]

\* The body of the loop of lines 128-155 for the prepared row bar.
ScanBarW(st, bar) ==
    LET current_data == Append(st.df, bar)
        signal == GenerateSignal(AnalyzeCurrentPhase(current_data), bar.date)
        exits == /\ st.current_position # <<>>
                 /\ ShouldExitPosition(st.current_position[1], bar.close, signal)
        trade == ClosePosition(st.current_position[1], bar.close, signal)
        capital1 == IF exits THEN st.current_capital + trade.pnl ELSE st.current_capital
        position1 == IF exits THEN <<>> ELSE st.current_position
        position2 == IF position1 = <<>> /\ signal.action # "HOLD"
                     THEN EnterPosition(signal, capital1)
                     ELSE position1
    IN  StateW(current_data,
               Append(st.signals, signal),
               position2,
               IF exits THEN Append(st.trades, trade) ELSE st.trades,
               capital1,
               Append(st.equity_curve,
                      [date |-> bar.date,
                       value |-> PortfolioValue(position2, capital1, bar.close)]))

\* One iteration of the loop of lines 128-155 on the next bar of the series.
WScanBar ==
    /\ sim = "W" /\ pc = "scan"
    /\ \E bar \in NextBarsW(df) :
       \E st \in {ScanBarW(StateW(df, signals, current_position, trades,
                                  current_capital, equity_curve), bar)} :
          /\ df' = st.df
          /\ signals' = st.signals
          /\ trades' = st.trades
          /\ current_capital' = st.current_capital
          /\ current_position' = st.current_position
          /\ equity_curve' = st.equity_curve
    /\ UNCHANGED <<sim, pc, performance_metrics, genVars, sig_i, stop_loss_pct>>
    /\ UNCHANGED callerVars

\* Lines 157-192 once the series is exhausted.  With no scanned bar
\* portfolio_value was never bound and line 179 raises.
FinalSignalW(s) ==
    [date |-> Last(s).date, phase |-> "Markup", branch |-> "final",
     action |-> "HOLD", price |-> Last(s).close, volume_ratio |-> 1000,
     confidence |-> 0, reasoning |-> "End of backtest period"]

\* What lines 157-192 leave: the trades, the capital and either the metrics
\* of the returned BacktestResults or the raise of line 179.
FinishW(st) ==
    LET open == st.current_position # <<>>
        trade == ClosePosition(st.current_position[1], Last(st.df).close,
                               FinalSignalW(st.df))
        trades1 == IF open THEN Append(st.trades, trade) ELSE st.trades
        raises == Len(st.df) <= LookbackW
    IN  [pc |-> IF raises THEN "error" ELSE "done",
         trades |-> trades1,
         current_capital |-> IF open THEN st.current_capital + trade.pnl
                             ELSE st.current_capital,
         equity_curve |-> st.equity_curve,
         performance_metrics |->
             IF raises THEN <<>>
             ELSE <<CalculatePerformanceMetricsW(trades1, st.equity_curve)>>]

WFinish ==
    /\ sim = "W" /\ pc = "scan"
    /\ \E r \in {FinishW(StateW(df, signals, current_position, trades,
                                current_capital, equity_curve))} :
          /\ trades' = r.trades
          /\ current_capital' = r.current_capital
          /\ current_position' = current_position
          /\ pc' = r.pc
          /\ performance_metrics' =
                 IF r.pc = "done" THEN r.performance_metrics ELSE performance_metrics
    /\ UNCHANGED <<sim, df, signals, equity_curve, genVars, sig_i, stop_loss_pct>>
    /\ UNCHANGED callerVars

\* ================================================================ E
\* ------------------------------------------- E: calculate_ema, calculate_atr
\* ewm(span, adjust=False).mean(): y = ((span - 1) * y_prev + 2 * x) / (span + 1),
\* in 1/1000 of a dollar; x is in dollars.
Ewm(span, prev, x) == ((span - 1) * prev + 2 * x * 1000) \div (span + 1)

Max2(a, b) == IF a > b THEN a ELSE b
Min2(a, b) == IF a < b THEN a ELSE b

\* true_range = max(high - low, |high - close.shift(1)|, |low - close.shift(1)|)
TrueRange(b, prev_close) ==
    Max2(b.high - b.low, Max2(Abs(b.high - prev_close), Abs(b.low - prev_close)))

\* The row run_analysis makes of bar b (lines 116-118) when the rows before are s.
IndicatorRow(s, b) ==
    [date |-> b.date, open |-> b.open, high |-> b.high, low |-> b.low,
     close |-> b.close, volume |-> b.volume,
     ema_21 |-> Ewm(ema_21_period, Last(s).ema_21, b.close),
     ema_50 |-> Ewm(ema_50_period, Last(s).ema_50, b.close),
     atr |-> Ewm(atr_period, Last(s).atr, TrueRange(b, Last(s).close))]

\* The lookback bars: flat at 100, so both EMAs are 100 and the ATR is 0.
PrefixE(n) ==
    [k \in 1..n |->
        [date |-> k, open |-> 100, high |-> 100, low |-> 100, close |-> 100,
         volume |-> 10, ema_21 |-> 100000, ema_50 |-> 100000, atr |-> 0]]

\* ------------------------------------------------------ E: _generate_signals
\* The state of the loop: in_trade, current_trailing_stop, highest_price_since_entry.
GenState(it, ts, hp) ==
    [in_trade |-> it, current_trailing_stop |-> ts, highest_price_since_entry |-> hp]

\* start_index = max(ema_50_period, atr_period)
StartIndexE == Max2(ema_50_period, atr_period)

\* Lines 165-167: the BUY branch is entered and the cross is fresh.
BuyBranch(g, row) == ~g.in_trade /\ row.close * 1000 > row.ema_50
FreshBuy(prev, row) == prev.close * 1000 <= prev.ema_50

\* Lines 189-192: highest price and trailing stop after the update.
HighestAfter(g, row) ==
    IF g.highest_price_since_entry = <<>> \/ row.close > g.highest_price_since_entry[1]
    THEN <<row.close>> ELSE g.highest_price_since_entry

TrailingStopAfter(g, row) ==
    IF g.highest_price_since_entry = <<>> \/ row.close > g.highest_price_since_entry[1]
    THEN <<row.close * 1000 - row.atr * atr_multiplier>>
    ELSE g.current_trailing_stop

\* Lines 195-206: "" when no sell is triggered, else the reason.
SellReason(g, prev, row) ==
    LET stop == TrailingStopAfter(g, row)
    IN  IF row.close * 1000 < row.ema_21
        THEN IF prev.close * 1000 >= prev.ema_21 THEN "closed below 21 EMA" ELSE ""
        ELSE IF stop # <<>> /\ row.close * 1000 < stop[1] THEN "hit trailing stop"
        ELSE ""

EMASignal(row, type, reasoning, stop) ==
    [date |-> row.date, signal_type |-> type, price |-> row.close,
     ema_21 |-> row.ema_21, ema_50 |-> row.ema_50, reasoning |-> reasoning,
     atr |-> row.atr, trailing_stop |-> stop]

\* One iteration of the loop of lines 153-223: the signal appended (<<>> for
\* none) and the loop state after it.
GenerateSignalsStep(g, prev, row) ==
    IF BuyBranch(g, row)
    THEN IF FreshBuy(prev, row)
         THEN [sig |-> <<EMASignal(row, "BUY", "closed above 50 EMA",
                                   <<row.close * 1000 - row.atr * atr_multiplier>>)>>,
               g |-> GenState(TRUE, <<row.close * 1000 - row.atr * atr_multiplier>>,
                              <<row.close>>)]
         ELSE [sig |-> <<>>, g |-> g]
    ELSE IF g.in_trade
    THEN IF SellReason(g, prev, row) # ""
         THEN [sig |-> <<EMASignal(row, "SELL", SellReason(g, prev, row),
                                   TrailingStopAfter(g, row))>>,
               g |-> GenState(FALSE, <<>>, <<>>)]
         ELSE [sig |-> <<>>,
               g |-> GenState(TRUE, TrailingStopAfter(g, row), HighestAfter(g, row))]
    ELSE [sig |-> <<>>, g |-> g]

\* ---------------------------------------------------------------- E: inputs
\* <<open, close>> of the bars a scan step may read; high and low are the
\* larger and the smaller of the two, and the bars are daily.
EBarChoices ==
    {<<100, 95>>, <<100, 105>>, <<100, 110>>, <<110, 95>>, <<110, 105>>, <<110, 110>>}

NextBarsE(s) ==
    IF Len(s) >= StartIndexE /\ Len(s) - StartIndexE < MaxScanE
    THEN {IndicatorRow(s, Bar(Last(s).date + 1, c[1], Max2(c[1], c[2]),
                              Min2(c[1], c[2]), c[2], 10)) : c \in EBarChoices}
    ELSE {}

\* ------------------------------------------------------ E: run_analysis
\* Lines 112-118: the length check, then the indicator columns.
EStart ==
    /\ sim = "E" /\ pc = "start"
    /\ pc' = IF Len(df) < ema_50_period THEN "error" ELSE "scan"
    /\ signals' = <<>>
    /\ in_trade' = FALSE
    /\ current_trailing_stop' = <<>>
    /\ highest_price_since_entry' = <<>>
    /\ UNCHANGED <<sim, df, current_position, trades, current_capital,
                   equity_curve, performance_metrics, sig_i, stop_loss_pct>>
    /\ UNCHANGED callerVars

\* One iteration of the loop of _generate_signals on the next bar of the series.
EScanBar ==
    /\ sim = "E" /\ pc = "scan"
    /\ \E row \in NextBarsE(df) :
       \E r \in {GenerateSignalsStep(
                    GenState(in_trade, current_trailing_stop, highest_price_since_entry),
                    Last(df), row)} :
          /\ df' = Append(df, row)
          /\ signals' = signals \o r.sig
          /\ in_trade' = r.g.in_trade
          /\ current_trailing_stop' = r.g.current_trailing_stop
          /\ highest_price_since_entry' = r.g.highest_price_since_entry
    /\ UNCHANGED <<sim, pc, current_position, trades, current_capital,
                   equity_curve, performance_metrics, sig_i, stop_loss_pct>>
    /\ UNCHANGED callerVars

\* ------------------------------------------------------ E: _execute_trades
\* date_to_index.get(signal.date), 1-based; 0 for None.
DateToIndex(s, date) ==
    IF \E k \in 1..Len(s) : s[k].date = date
    THEN CHOOSE k \in 1..Len(s) : s[k].date = date
    ELSE 0

\* Lines 229-231: the series has ended; trades, position and capital start.
EExecStart ==
    /\ sim = "E" /\ pc = "scan"
    /\ pc' = "exec"
    /\ trades' = <<>>
    /\ current_position' = <<>>
    /\ current_capital' = initial_capital
    /\ sig_i' = 1
    /\ UNCHANGED <<sim, df, signals, equity_curve, performance_metrics, genVars,
                   stop_loss_pct>>
    /\ UNCHANGED callerVars

ExitReasonE(signal) ==
    IF signal.reasoning = "hit trailing stop" THEN "TRAILING_STOP" ELSE "EMA_SIGNAL"

EMATradeOf(p, exit_date, exit_price, exit_signal, exit_reason) ==
    [entry_date |-> p.entry_date,
     exit_date |-> exit_date,
     entry_price |-> p.entry_price,
     exit_price |-> exit_price,
     entry_signal |-> p.entry_signal,
     exit_signal |-> exit_signal,
     shares |-> p.shares,
     pnl |-> p.shares * (exit_price - p.entry_price),
     duration_days |-> exit_date - p.entry_date,
     exit_reason |-> exit_reason]

\* The body of the loop of lines 236-284 for one signal; st holds the
\* position, the capital and the trades before it.
ExecuteSignalE(s, signal, st) ==
    LET signal_index == DateToIndex(s, signal.date)
        has_next == signal_index # 0 /\ signal_index + 1 <= Len(s)
        next_day_open == s[signal_index + 1].open
        shares == st.current_capital \div next_day_open
    IN  IF signal.signal_type = "BUY" /\ st.current_position = <<>>
        THEN IF has_next /\ shares > 0
             THEN [current_position |->
                       <<[entry_date |-> signal.date,
                          entry_price |-> next_day_open,
                          entry_signal |-> signal.reasoning,
                          shares |-> shares]>>,
                   current_capital |-> st.current_capital - shares * next_day_open,
                   trades |-> st.trades]
             ELSE st
        ELSE IF signal.signal_type = "SELL" /\ st.current_position # <<>>
        THEN IF has_next
             THEN [current_position |-> <<>>,
                   current_capital |->
                       st.current_capital + st.current_position[1].shares * next_day_open,
                   trades |-> Append(st.trades,
                       EMATradeOf(st.current_position[1], signal.date, next_day_open,
                                  signal.reasoning, ExitReasonE(signal)))]
             ELSE st
        ELSE st

\* The loop of lines 236-284 over the signals from index k on.
RECURSIVE ExecuteTradesLoop(_, _, _, _)
ExecuteTradesLoop(s, sigs, k, st) ==
    IF k > Len(sigs) THEN st
    ELSE ExecuteTradesLoop(s, sigs, k + 1, ExecuteSignalE(s, sigs[k], st))

\* One iteration of the loop of lines 236-284.
EExecSignal ==
    /\ sim = "E" /\ pc = "exec" /\ sig_i <= Len(signals)
    /\ \E st \in {ExecuteSignalE(df, signals[sig_i],
                                 [current_position |-> current_position,
                                  current_capital |-> current_capital,
                                  trades |-> trades])} :
          /\ current_position' = st.current_position
          /\ current_capital' = st.current_capital
          /\ trades' = st.trades
    /\ sig_i' = sig_i + 1
    /\ UNCHANGED <<sim, pc, df, signals, equity_curve, performance_metrics, genVars,
                   stop_loss_pct>>
    /\ UNCHANGED callerVars

\* ------------------------------------ E: _calculate_performance_metrics
\* The drawdown loop of lines 339-350 over the trades from index k on; dollars.
RECURSIVE DrawdownLoopE(_, _, _, _, _)
DrawdownLoopE(ts, k, cumulative_pnl, peak, maxdd) ==
    IF k > Len(ts) THEN maxdd
    ELSE LET cum == cumulative_pnl + ts[k].pnl
             pk == IF cum > peak THEN cum ELSE peak
         IN  DrawdownLoopE(ts, k + 1, cum, pk,
                           IF pk - cum > maxdd THEN pk - cum ELSE maxdd)

CalculatePerformanceMetricsE(ts) ==
    IF ts = <<>>
    THEN [total_trades |-> 0, winning_trades |-> 0, losing_trades |-> 0,
          win_rate |-> 0, total_pnl |-> 0, total_return_percent |-> 0,
          avg_trade_duration |-> 0, max_drawdown |-> 0, sharpe_ratio |-> 0]
    ELSE [total_trades |-> Len(ts),
          winning_trades |-> CountIf(ts, IsWin),
          losing_trades |-> CountIf(ts, IsLoss),
          win_rate |-> (CountIf(ts, IsWin) * 1000) \div Len(ts),
          total_pnl |-> SumSeq(Pnls(ts)),
          total_return_percent |-> (SumSeq(Pnls(ts)) * 1000) \div initial_capital,
          avg_trade_duration |->
              SumSeq([k \in 1..Len(ts) |-> ts[k].duration_days]) \div Len(ts),
          max_drawdown |-> DrawdownLoopE(ts, 1, 0, 0, 0),
          sharpe_ratio |-> 0]

\* ------------------------------------------------ E: _generate_equity_curve
\* trade_pnl_by_date[date]: the pnl of the last trade of ts that exited on date.
PnlByDate(ts, date) ==
    LET ks == {k \in 1..Len(ts) : ts[k].exit_date = date}
    IN  IF ks = {} THEN 0 ELSE ts[CHOOSE k \in ks : \A j \in ks : j <= k].pnl

RECURSIVE EquityLoopE(_, _, _, _, _)
EquityLoopE(s, ts, k, current_equity, curve) ==
    IF k > Len(s) THEN curve
    ELSE LET eq == current_equity + PnlByDate(ts, s[k].date)
         IN  EquityLoopE(s, ts, k + 1, eq, Append(curve, [date |-> s[k].date, value |-> eq]))

\* An equity curve that starts at the first scanned bar.
GenerateEquityCurveScanned(s, ts) ==
    EquityLoopE(s, ts, StartIndexE + 1, initial_capital, <<>>)

GenerateEquityCurveE(s, ts) == EquityLoopE(s, ts, 1, initial_capital, <<>>)

\* Lines 286-311 and 126-141: the remaining position is closed at the last
\* close, then metrics and equity curve are computed and the result returned.
EFinish ==
    /\ sim = "E" /\ pc = "exec" /\ sig_i > Len(signals)
    /\ LET open == current_position # <<>>
           trade == EMATradeOf(current_position[1], Last(df).date, Last(df).close,
                               "End of period - position closed", "None")
           trades1 == IF open THEN Append(trades, trade) ELSE trades
       IN  /\ trades' = trades1
           /\ performance_metrics' = <<CalculatePerformanceMetricsE(trades1)>>
           /\ equity_curve' = GenerateEquityCurveE(df, trades1)
    /\ pc' = "done"
    /\ UNCHANGED <<sim, df, signals, current_position, current_capital, genVars,
                   sig_i, stop_loss_pct>>
    /\ UNCHANGED callerVars

\* ================================================================ S
\* Prices of this simulator are in cents, capital and pnl in dollars.
\* ------------------------------------------- S: _generate_trading_signals
RECURSIVE SumClose(_, _, _)
SumClose(s, lo, hi) == IF lo > hi THEN 0 ELSE s[lo].close + SumClose(s, lo + 1, hi)

\* Sum over the last n deltas (close.diff()) of the rising (sign = 1) or the
\* falling (sign = -1) ones, rows lo..hi of s; the delta of row 1 is NaN and
\* counts as 0 in both.
RECURSIVE SumDelta(_, _, _, _)
SumDelta(s, lo, hi, sign) ==
    IF lo > hi THEN 0
    ELSE LET delta == IF lo = 1 THEN 0 ELSE s[lo].close - s[lo - 1].close
         IN  (IF sign * delta > 0 THEN sign * delta ELSE 0) + SumDelta(s, lo + 1, hi, sign)

\* The row lines 98-100 make of a bar with this date and close when the rows
\* before it are s: 20 * sma_20, 50 * sma_50 and 14 * the rolling mean gain
\* and loss of the RSI (all rolling windows are full from row 50 on).
SignalRow(s, date, close) ==
    LET s1 == Append(s, [date |-> date, close |-> close])
        n == Len(s) + 1
    IN  [date |-> date, close |-> close, volume |-> 10,
         sum_20 |-> SumClose(s1, n - Window + 1, n),
         sum_50 |-> SumClose(s1, n - LookbackS + 1, n),
         gain |-> SumDelta(s1, n - rsi_period + 1, n, 1),
         loss |-> SumDelta(s1, n - rsi_period + 1, n, 0 - 1)]

PrefixS(n) ==
    [k \in 1..n |->
        [date |-> k, close |-> 10000, volume |-> 10,
         sum_20 |-> 10000 * Window, sum_50 |-> 10000 * LookbackS,
         gain |-> 0, loss |-> 0]]

\* rsi = 100 - 100 / (1 + gain / loss) lies strictly between 30 and 70
\* exactly when 3/7 < gain / loss < 7/3; with loss = 0 the rsi is 100 or NaN.
RsiInBand(row) == 3 * row.loss < 7 * row.gain /\ 3 * row.gain < 7 * row.loss

\* Lines 108-126: "BUY", "SELL" or "" for no signal.
TradingSignalAction(row) ==
    IF /\ row.close * Window > row.sum_20 /\ row.close * LookbackS > row.sum_50
       /\ RsiInBand(row)
    THEN "BUY"
    ELSE IF /\ row.close * Window < row.sum_20 /\ row.close * LookbackS < row.sum_50
            /\ RsiInBand(row)
    THEN "SELL"
    ELSE ""

\* ---------------------------------------------------------------- S: inputs
SCloseChoices == {9500, 10000, 10500}

NextBarsS(s) ==
    IF Len(s) >= LookbackS /\ Len(s) - LookbackS < MaxScanS
    THEN {SignalRow(s, Last(s).date + 1, c) : c \in SCloseChoices}
    ELSE {}

\* optimize_stop_loss lines 60-72 up to the loop of _generate_trading_signals.
SStart ==
    /\ sim = "S" /\ pc = "start"
    /\ pc' = "scan"
    /\ signals' = <<>>
    /\ UNCHANGED <<sim, df, current_position, trades, current_capital,
                   equity_curve, performance_metrics, genVars, sig_i, stop_loss_pct>>
    /\ UNCHANGED callerVars

\* One iteration of the loop of lines 102-126 on the next bar of the series.
SScanBar ==
    /\ sim = "S" /\ pc = "scan"
    /\ \E row \in NextBarsS(df) :
          /\ df' = Append(df, row)
          /\ signals' =
                IF TradingSignalAction(row) = "" THEN signals
                ELSE Append(signals, [date |-> row.date,
                                      action |-> TradingSignalAction(row),
                                      price |-> row.close,
                                      volume |-> row.volume])
    /\ UNCHANGED <<sim, pc, current_position, trades, current_capital,
                   equity_curve, performance_metrics, genVars, sig_i, stop_loss_pct>>
    /\ UNCHANGED callerVars

\* ------------------------------------------- S: _backtest_with_stop_loss
\* Lines 257-263, called as _find_overall_optimal calls it: all signals, the
\* whole series as the period, one candidate of test_intervals.
SBacktestStart ==
    /\ sim = "S" /\ pc = "scan"
    /\ pc' = "exec"
    /\ \E pct \in test_intervals : stop_loss_pct' = pct
    /\ current_capital' = initial_capital
    /\ current_position' = <<>>
    /\ trades' = <<>>
    /\ equity_curve' = <<initial_capital>>
    /\ sig_i' = 1
    /\ UNCHANGED <<sim, df, signals, performance_metrics, genVars>>
    /\ UNCHANGED callerVars

\* stop_loss_price = entry_price * (1 - stop_loss_pct)
StopLossPrice(entry_price, pct) == (entry_price * (100 - pct)) \div 100

\* pnl = (exit_price - entry_price) * shares with shares = entry_capital / entry_price
PnlS(p, exit_price) == ((exit_price - p.entry_price) * p.entry_capital) \div p.entry_price

\* A trade record whose exit price is the entry price instead of the price paid.
TradeSAtEntryPrice(p, exit_date, exit_price, exit_reason) ==
    [entry_date |-> p.entry_date,
     exit_date |-> exit_date,
     entry_price |-> p.entry_price,
     exit_price |-> p.entry_price,
     pnl |-> PnlS(p, exit_price),
     pnl_percent |-> ((exit_price - p.entry_price) * 10000) \div p.entry_price,
     exit_reason |-> exit_reason]
TradeS(p, exit_date, exit_price, exit_reason) ==
    [entry_date |-> p.entry_date,
     exit_date |-> exit_date,
     entry_price |-> p.entry_price,
     exit_price |-> exit_price,
     pnl |-> PnlS(p, exit_price),
     pnl_percent |-> ((exit_price - p.entry_price) * 10000) \div p.entry_price,
     exit_reason |-> exit_reason]

\* shares = capital / signal['price'] (line 268), a float: its whole part and
\* what is left of the division, prices being in cents.
SharesS(p) ==
    [whole |-> (p.entry_capital * 100) \div p.entry_price,
     rest |-> (p.entry_capital * 100) % p.entry_price]
\* Lines 278-287: exit price and reason of a position closed by a SELL signal.
StoppedOut(p, signal, pct) == signal.price <= StopLossPrice(p.entry_price, pct)
SellExitPrice(p, signal, pct) ==
    IF StoppedOut(p, signal, pct) THEN StopLossPrice(p.entry_price, pct) ELSE signal.price
SellExitReason(p, signal, pct) ==
    IF StoppedOut(p, signal, pct) THEN "Stop Loss" ELSE "Signal"

\* One iteration of the loop of lines 265-306.
SExecSignal ==
    /\ sim = "S" /\ pc = "exec" /\ sig_i <= Len(signals)
    /\ LET signal == signals[sig_i]
           trade == TradeS(current_position[1], signal.date,
                           SellExitPrice(current_position[1], signal, stop_loss_pct),
                           SellExitReason(current_position[1], signal, stop_loss_pct))
       IN  IF signal.action = "BUY" /\ current_position = <<>>
           THEN /\ current_position' =
                       <<[entry_price |-> signal.price,
                          entry_date |-> signal.date,
                          entry_capital |-> current_capital]>>
                /\ UNCHANGED <<current_capital, trades, equity_curve>>
           ELSE IF signal.action = "SELL" /\ current_position # <<>>
           THEN /\ current_capital' = current_capital + trade.pnl
                /\ trades' = Append(trades, trade)
                /\ equity_curve' = Append(equity_curve, current_capital + trade.pnl)
                /\ current_position' = <<>>
           ELSE UNCHANGED <<current_position, current_capital, trades, equity_curve>>
    /\ sig_i' = sig_i + 1
    /\ UNCHANGED <<sim, pc, df, signals, performance_metrics, genVars, stop_loss_pct>>
    /\ UNCHANGED callerVars

\* Lines 355-363: max drawdown in 1/10 percent, peak starting at initial_capital.
RECURSIVE DrawdownLoopS(_, _, _, _)
DrawdownLoopS(vs, k, peak, max_dd) ==
    IF k > Len(vs) THEN max_dd
    ELSE LET pk == IF vs[k] > peak THEN vs[k] ELSE peak
             dd == ((pk - vs[k]) * 1000) \div pk
         IN  DrawdownLoopS(vs, k + 1, pk, IF dd > max_dd THEN dd ELSE max_dd)

\* profit_factor = abs(avg_win / avg_loss) if avg_loss != 0 else float('inf')
ProfitFactorS(avg_win, avg_loss) ==
    IF avg_loss # 0 THEN Ratio(Abs(avg_win), Abs(avg_loss)) ELSE Infinite

\* Lines 331-389: the StopLossResult of the run.
StopLossResultOf(ts, capital, curve, pct) ==
    IF ts = <<>>
    THEN [optimal_stop_loss |-> pct, total_return |-> 0, win_rate |-> 0,
          max_drawdown |-> 0, total_trades |-> 0, winning_trades |-> 0,
          losing_trades |-> 0, avg_win |-> 0, avg_loss |-> 0,
          profit_factor |-> Ratio(0, 1)]
    ELSE LET avg_win == IF CountIf(ts, IsWin) > 0
                        THEN SumSeq(WinPnls(ts)) \div CountIf(ts, IsWin) ELSE 0
             avg_loss == IF CountIf(ts, IsLoss) > 0
                         THEN 0 - ((0 - SumSeq(LossPnls(ts))) \div CountIf(ts, IsLoss))
                         ELSE 0
         IN  [optimal_stop_loss |-> pct,
              total_return |-> ((capital - initial_capital) * 1000) \div initial_capital,
              win_rate |-> (CountIf(ts, IsWin) * 1000) \div Len(ts),
              max_drawdown |-> DrawdownLoopS(curve, 1, initial_capital, 0),
              total_trades |-> Len(ts),
              winning_trades |-> CountIf(ts, IsWin),
              losing_trades |-> CountIf(ts, IsLoss),
              avg_win |-> avg_win,
              avg_loss |-> avg_loss,
              profit_factor |-> ProfitFactorS(avg_win, avg_loss)]

\* Lines 308-389: the remaining position is closed at the last close of the
\* period, then the result is computed and returned.
SFinish ==
    /\ sim = "S" /\ pc = "exec" /\ sig_i > Len(signals)
    /\ LET open == current_position # <<>>
           trade == TradeS(current_position[1], Last(df).date, Last(df).close,
                           "Period End")
           trades1 == IF open THEN Append(trades, trade) ELSE trades
           capital1 == IF open THEN current_capital + trade.pnl ELSE current_capital
           curve1 == IF open THEN Append(equity_curve, capital1) ELSE equity_curve
       IN  /\ trades' = trades1
           /\ current_capital' = capital1
           /\ equity_curve' = curve1
           /\ performance_metrics' =
                  <<StopLossResultOf(trades1, capital1, curve1, stop_loss_pct)>>
    /\ pc' = "done"
    /\ UNCHANGED <<sim, df, signals, current_position, genVars, sig_i, stop_loss_pct>>
    /\ UNCHANGED callerVars

\* A run of one simulator has no concurrent call and no sweep around it.
NoCallers ==
    /\ calls = <<>>
    /\ symbols = <<>>
    /\ sym_i = 0
    /\ all_results = <<>>
    /\ printed = <<>>
    /\ response = "none"

\* ------------------------------------------------------------ specification
Init ==
    /\ sim \in {"W", "E", "S"}
    /\ pc = "start"
    /\ df \in CASE sim = "W" -> {PrefixW(LookbackW)}
                 [] sim = "E" -> {PrefixE(ema_50_period - 1), PrefixE(ema_50_period)}
                 [] sim = "S" -> {PrefixS(LookbackS - 1), PrefixS(LookbackS)}
    /\ signals = <<>>
    /\ current_position = <<>>
    /\ trades = <<>>
    /\ current_capital = initial_capital
    /\ equity_curve = <<>>
    /\ performance_metrics = <<>>
    /\ in_trade = FALSE
    /\ current_trailing_stop = <<>>
    /\ highest_price_since_entry = <<>>
    /\ sig_i = 0
    /\ stop_loss_pct = 0
    /\ NoCallers

Next ==
    \/ WStart
    \/ WScanBar
    \/ WFinish
    \/ EStart
    \/ EScanBar
    \/ EExecStart
    \/ EExecSignal
    \/ EFinish
    \/ SStart
    \/ SScanBar
    \/ SBacktestStart
    \/ SExecSignal
    \/ SFinish

Spec == Init /\ [][Next]_vars

\* ================================================================ optimizer
\* StopLossOptimizer.optimize_stop_loss: calendar buckets, one backtest per
\* candidate and bucket, and the overall optimum.  A date is a day number:
\* day 1 is January 1st of the first year and every year has 365 days (the
\* series of the model stay clear of a February 29th).
\* ------------------------------------------------- S: calendar of datetime
\* Days of the year before the first day of month m.
MonthStart == <<0, 31, 59, 90, 120, 151, 181, 212, 243, 273, 304, 334>>
\* date.year, date.month and datetime(year, month, day)
YearOf(d) == (d - 1) \div 365
DayOfYear(d) == ((d - 1) % 365) + 1
MonthOf(d) ==
    CHOOSE m \in 1..12 :
        /\ MonthStart[m] < DayOfYear(d)
        /\ m < 12 => DayOfYear(d) <= MonthStart[m + 1]
DateOf(year, month, day) == year * 365 + MonthStart[month] + day

\* ------------------------------------------------ S: _get_monthly_periods
Period(period_start, period_end) ==
    [period_start |-> period_start, period_end |-> period_end]

RECURSIVE MonthlyLoop(_, _, _)
MonthlyLoop(current, end_date, periods) ==
    IF current > end_date THEN periods
    ELSE LET next_month == IF MonthOf(current) = 12
                           THEN DateOf(YearOf(current) + 1, 1, 1)
                           ELSE DateOf(YearOf(current), MonthOf(current) + 1, 1)
         IN  MonthlyLoop(next_month, end_date,
                         Append(periods, Period(current, Min2(next_month - 1, end_date))))

\* current = start_date.replace(day=1); start_date, end_date = min, max of df['date']
GetMonthlyPeriods(s) ==
    MonthlyLoop(DateOf(YearOf(s[1].date), MonthOf(s[1].date), 1), Last(s).date, <<>>)

\* ---------------------------------------------- S: _get_quarterly_periods
QuarterEnd(current) ==
    IF MonthOf(current) \in {1, 2, 3} THEN DateOf(YearOf(current), 3, 31)
    ELSE IF MonthOf(current) \in {4, 5, 6} THEN DateOf(YearOf(current), 6, 30)
    ELSE IF MonthOf(current) \in {7, 8, 9} THEN DateOf(YearOf(current), 9, 30)
    ELSE DateOf(YearOf(current), 12, 31)

NextQuarter(current) ==
    IF MonthOf(current) >= 10 THEN DateOf(YearOf(current) + 1, 1, 1)
    ELSE IF MonthOf(current) >= 7 THEN DateOf(YearOf(current), 10, 1)
    ELSE IF MonthOf(current) >= 4 THEN DateOf(YearOf(current), 7, 1)
    ELSE DateOf(YearOf(current), 4, 1)

RECURSIVE QuarterlyLoop(_, _, _)
QuarterlyLoop(current, end_date, periods) ==
    IF current > end_date THEN periods
    ELSE QuarterlyLoop(NextQuarter(current), end_date,
                       Append(periods, Period(current, Min2(QuarterEnd(current), end_date))))

\* quarter_start_month = ((start_date.month - 1) // 3) * 3 + 1
GetQuarterlyPeriods(s) ==
    QuarterlyLoop(DateOf(YearOf(s[1].date), ((MonthOf(s[1].date) - 1) \div 3) * 3 + 1, 1),
                  Last(s).date, <<>>)

\* ------------------------------------------------- S: _get_yearly_periods
RECURSIVE YearlyLoop(_, _, _, _)
YearlyLoop(current_year, start_date, end_date, periods) ==
    IF current_year > YearOf(end_date) THEN periods
    ELSE YearlyLoop(current_year + 1, start_date, end_date,
                    Append(periods, Period(Max2(DateOf(current_year, 1, 1), start_date),
                                           Min2(DateOf(current_year, 12, 31), end_date))))

GetYearlyPeriods(s) == YearlyLoop(YearOf(s[1].date), s[1].date, Last(s).date, <<>>)

\* The periods of _optimize_by_period lines 134-141.
PeriodsOf(s, period_type) ==
    CASE period_type = "monthly"   -> GetMonthlyPeriods(s)
      [] period_type = "quarterly" -> GetQuarterlyPeriods(s)
      [] period_type = "yearly"    -> GetYearlyPeriods(s)
      [] OTHER                     -> <<>>

\* A loop in which the stop is a trigger: the position is closed at the stop
\* price on the first signal, of any action, priced at or under it.
RECURSIVE BacktestLoopStopTriggers(_, _, _, _)
BacktestLoopStopTriggers(sigs, k, pct, st) ==
    IF k > Len(sigs) THEN st
    ELSE IF sigs[k].action = "BUY" /\ st.position = <<>>
    THEN BacktestLoopStopTriggers(sigs, k + 1, pct,
            [st EXCEPT !.position = <<[entry_price |-> sigs[k].price,
                                       entry_date |-> sigs[k].date,
                                       entry_capital |-> st.capital]>>])
    ELSE IF st.position # <<>>
            /\ (sigs[k].action = "SELL" \/ StoppedOut(st.position[1], sigs[k], pct))
    THEN BacktestLoopStopTriggers(sigs, k + 1, pct,
            [position |-> <<>>,
             capital |-> st.capital
                 + PnlS(st.position[1], SellExitPrice(st.position[1], sigs[k], pct)),
             trades |-> Append(st.trades,
                 TradeS(st.position[1], sigs[k].date,
                        SellExitPrice(st.position[1], sigs[k], pct),
                        SellExitReason(st.position[1], sigs[k], pct))),
             equity_curve |-> Append(st.equity_curve, st.capital
                 + PnlS(st.position[1], SellExitPrice(st.position[1], sigs[k], pct)))])
    ELSE BacktestLoopStopTriggers(sigs, k + 1, pct, st)

\* ------------------------------ S: _backtest_with_stop_loss as one call
\* The loop of lines 265-306 from signal k on; st is the state of the call.
RECURSIVE BacktestLoop(_, _, _, _)
BacktestLoop(sigs, k, pct, st) ==
    IF k > Len(sigs) THEN st
    ELSE IF sigs[k].action = "BUY" /\ st.position = <<>>
    THEN BacktestLoop(sigs, k + 1, pct,
            [st EXCEPT !.position = <<[entry_price |-> sigs[k].price,
                                       entry_date |-> sigs[k].date,
                                       entry_capital |-> st.capital]>>])
    ELSE IF sigs[k].action = "SELL" /\ st.position # <<>>
    THEN BacktestLoop(sigs, k + 1, pct,
            [position |-> <<>>,
             capital |-> st.capital
                 + PnlS(st.position[1], SellExitPrice(st.position[1], sigs[k], pct)),
             trades |-> Append(st.trades,
                 TradeS(st.position[1], sigs[k].date,
                        SellExitPrice(st.position[1], sigs[k], pct),
                        SellExitReason(st.position[1], sigs[k], pct))),
             equity_curve |-> Append(st.equity_curve, st.capital
                 + PnlS(st.position[1], SellExitPrice(st.position[1], sigs[k], pct)))])
    ELSE BacktestLoop(sigs, k + 1, pct, st)

\* Lines 308-328: the position left open is closed at the last close of the period.
ClosePeriodEnd(st, last_row) ==
    IF st.position = <<>> THEN st
    ELSE [position |-> st.position,
          capital |-> st.capital + PnlS(st.position[1], last_row.close),
          trades |-> Append(st.trades,
              TradeS(st.position[1], last_row.date, last_row.close, "Period End")),
          equity_curve |-> Append(st.equity_curve,
              st.capital + PnlS(st.position[1], last_row.close))]

\* Floor of the square root, for np.std.
RECURSIVE ISqrtBetween(_, _, _)
ISqrtBetween(x, lo, hi) ==
    IF hi - lo <= 1 THEN lo
    ELSE IF ((lo + hi) \div 2) * ((lo + hi) \div 2) <= x
    THEN ISqrtBetween(x, (lo + hi) \div 2, hi)
    ELSE ISqrtBetween(x, lo, (lo + hi) \div 2)
ISqrt(x) == ISqrtBetween(x, 0, Min2(x + 1, 46341))

\* Lines 366-367: np.mean(returns) / np.std(returns) over pnl_percent, 0 with
\* fewer than two trades or no spread; in 1/1000.  mean / std equals
\* sum / sqrt(n * sum of squares - sum ^ 2).
SharpeRatio(ts) ==
    LET returns == [k \in 1..Len(ts) |-> ts[k].pnl_percent]
        squares == [k \in 1..Len(ts) |-> ts[k].pnl_percent * ts[k].pnl_percent]
        spread == Len(ts) * SumSeq(squares) - SumSeq(returns) * SumSeq(returns)
    IN  IF Len(ts) > 1 /\ spread > 0
        THEN (SumSeq(returns) * 1000) \div ISqrt(spread)
        ELSE 0

PeriodData(s, period_start, period_end) ==
    SelectSeq(s, LAMBDA row : period_start <= row.date /\ row.date <= period_end)

\* The StopLossResult of lines 331-389 with its period and Sharpe ratio.
ResultOfBacktest(st, pct, period_start, period_end) ==
    [period_start |-> period_start, period_end |-> period_end,
     sharpe_ratio |-> SharpeRatio(st.trades), trades |-> st.trades]
    @@ StopLossResultOf(st.trades, st.capital, st.equity_curve, pct)

BacktestWithStopLoss(s, sigs, pct, period_start, period_end) ==
    ResultOfBacktest(
        ClosePeriodEnd(
            BacktestLoop(sigs, 1, pct,
                [position |-> <<>>, capital |-> initial_capital, trades |-> <<>>,
                 equity_curve |-> <<initial_capital>>]),
            Last(PeriodData(s, period_start, period_end))),
        pct, period_start, period_end)

\* ------------------------------------------------ S: _optimize_by_period
\* score = result.sharpe_ratio * 0.6 + (result.win_rate / 100) * 0.4, in 1/10000
PeriodScore(result) == 6 * result.sharpe_ratio + 4 * result.win_rate

\* period_signals = [s for s in signals if period_start <= s['date'] <= period_end]
PeriodSignals(sigs, period) ==
    SelectSeq(sigs, LAMBDA x : period.period_start <= x.date /\ x.date <= period.period_end)

\* A minimum-sample rule that skips a bucket only below 3 signals.
TooFewSignalsBelow3(period_signals) == Len(period_signals) < 3
\* if len(period_signals) < 5: continue
TooFewSignals(period_signals) == Len(period_signals) < 5

\* A candidate loop that replaces the best result on an equal score as well.
RECURSIVE BestResultLoopKeepLast(_, _, _, _, _, _)
BestResultLoopKeepLast(s, period_signals, period, rest, best_result, best_score) ==
    IF rest = {} THEN best_result
    ELSE LET candidate == CHOOSE p \in rest : \A q \in rest : p <= q
             result == BacktestWithStopLoss(s, period_signals, candidate,
                                            period.period_start, period.period_end)
         IN  IF best_result = <<>> \/ PeriodScore(result) >= best_score
             THEN BestResultLoopKeepLast(s, period_signals, period, rest \ {candidate},
                                         <<result>>, PeriodScore(result))
             ELSE BestResultLoopKeepLast(s, period_signals, period, rest \ {candidate},
                                         best_result, best_score)
\* The loop of lines 153-162 over the candidates not yet tried, in the
\* ascending order of test_intervals; best_result is <<>> while best_score is
\* -inf, which every score exceeds.
RECURSIVE BestResultLoop(_, _, _, _, _, _)
BestResultLoop(s, period_signals, period, rest, best_result, best_score) ==
    IF rest = {} THEN best_result
    ELSE LET candidate == CHOOSE p \in rest : \A q \in rest : p <= q
             result == BacktestWithStopLoss(s, period_signals, candidate,
                                            period.period_start, period.period_end)
         IN  IF best_result = <<>> \/ PeriodScore(result) > best_score
             THEN BestResultLoop(s, period_signals, period, rest \ {candidate},
                                 <<result>>, PeriodScore(result))
             ELSE BestResultLoop(s, period_signals, period, rest \ {candidate},
                                 best_result, best_score)

\* The loop of lines 143-165 over the periods from index k on.
RECURSIVE OptimizeLoop(_, _, _, _, _)
OptimizeLoop(s, sigs, periods, k, results) ==
    IF k > Len(periods) THEN results
    ELSE IF TooFewSignals(PeriodSignals(sigs, periods[k]))
    THEN OptimizeLoop(s, sigs, periods, k + 1, results)
    ELSE OptimizeLoop(s, sigs, periods, k + 1,
             results \o BestResultLoop(s, PeriodSignals(sigs, periods[k]), periods[k],
                                       test_intervals, <<>>, 0))

OptimizeByPeriod(s, sigs, period_type) ==
    OptimizeLoop(s, sigs, PeriodsOf(s, period_type), 1, <<>>)

\* ----------------------------------------------- S: _find_overall_optimal
\* score = sharpe * 0.4 + (win_rate / 100) * 0.3 + (total_return / 100) * 0.2
\*         + (1 - max_drawdown / 100) * 0.1, in 1/10000
OverallScore(result) ==
    4 * result.sharpe_ratio + 3 * result.win_rate + 2 * result.total_return
    + (1000 - result.max_drawdown)

\* The loop of lines 396-408; best is <<best_stop_loss, best_score>> and
\* started is FALSE while best_score is -inf.
RECURSIVE OverallLoop(_, _, _, _, _)
OverallLoop(s, sigs, rest, started, best) ==
    IF rest = {} THEN best[1]
    ELSE LET candidate == CHOOSE p \in rest : \A q \in rest : p <= q
             result == BacktestWithStopLoss(s, sigs, candidate, s[1].date, Last(s).date)
         IN  IF ~started \/ OverallScore(result) > best[2]
             THEN OverallLoop(s, sigs, rest \ {candidate}, TRUE,
                              <<candidate, OverallScore(result)>>)
             ELSE OverallLoop(s, sigs, rest \ {candidate}, started, best)

\* An overall optimum that is the default 8% whatever the backtests give.
FindOverallDefault(s, sigs) == 8
FindOverallOptimal(s, sigs) == OverallLoop(s, sigs, test_intervals, FALSE, <<8, 0>>)

\* ------------------------------------------------- S: optimize_stop_loss
\* Day numbers before the first bar of the series: January 1st, 7th and 10th
\* and November 10th of the first year.
StartOffsets == {0, 6, 9, 313}

ShiftDates(s, offset) == [k \in 1..Len(s) |-> [s[k] EXCEPT !.date = @ + offset]]

NextBarsO(s) ==
    IF Len(s) - LookbackS < MaxScanO
    THEN {SignalRow(s, Last(s).date + 1, c) : c \in SCloseChoices}
    ELSE {}

\* One iteration of the loop of _generate_trading_signals, lines 102-126.
OScanBar ==
    /\ sim = "S" /\ pc = "scan"
    /\ \E row \in NextBarsO(df) :
          /\ df' = Append(df, row)
          /\ signals' =
                IF TradingSignalAction(row) = "" THEN signals
                ELSE Append(signals, [date |-> row.date,
                                      action |-> TradingSignalAction(row),
                                      price |-> row.close,
                                      volume |-> row.volume])
    /\ UNCHANGED <<sim, pc, current_position, trades, current_capital,
                   equity_curve, performance_metrics, genVars, sig_i, stop_loss_pct>>
    /\ UNCHANGED callerVars

\* Lines 75-91: the three granularities, the overall optimum, and the return.
OOptimize ==
    /\ sim = "S" /\ pc = "scan"
    /\ pc' = "optimized"
    /\ performance_metrics' =
          <<[overall_optimal |-> FindOverallOptimal(df, signals),
             monthly_results |-> OptimizeByPeriod(df, signals, "monthly"),
             quarterly_results |-> OptimizeByPeriod(df, signals, "quarterly"),
             yearly_results |-> OptimizeByPeriod(df, signals, "yearly")]>>
    /\ UNCHANGED <<sim, df, signals, current_position, trades, current_capital,
                   equity_curve, genVars, sig_i, stop_loss_pct>>
    /\ UNCHANGED callerVars

InitOpt ==
    /\ sim = "S"
    /\ pc = "start"
    /\ df \in {ShiftDates(PrefixS(LookbackS), offset) : offset \in StartOffsets}
    /\ signals = <<>>
    /\ current_position = <<>>
    /\ trades = <<>>
    /\ current_capital = initial_capital
    /\ equity_curve = <<>>
    /\ performance_metrics = <<>>
    /\ in_trade = FALSE
    /\ current_trailing_stop = <<>>
    /\ highest_price_since_entry = <<>>
    /\ sig_i = 0
    /\ stop_loss_pct = 0
    /\ NoCallers

NextOpt ==
    \/ SStart
    \/ OScanBar
    \/ OOptimize

SpecOpt == InitOpt /\ [][NextOpt]_vars

\* ====================================== run_backtest as a function of a series
\* The loop of lines 128-155 over the rows of s from index k on.
RECURSIVE ScanLoopW(_, _, _)
ScanLoopW(s, k, st) ==
    IF k > Len(s) THEN st
    ELSE ScanLoopW(s, k + 1, ScanBarW(st, s[k]))

\* run_backtest on a fresh engine over the prepared series s, whose first
\* LookbackW rows are the lookback.
RunBacktestW(s) ==
    FinishW(ScanLoopW(s, LookbackW + 1,
                      StateW(SubSeq(s, 1, LookbackW), <<>>, <<>>, <<>>,
                             initial_capital, <<>>)))

\* ===================================== two calls on one WyckoffBacktestEngine
\* The calls of run_backtest, one per symbol, that share the engine.
Calls == {"A", "B"}

\* The variables of a single run that the callers leave alone, the capital
\* of the engine apart.
runVars == <<sim, pc, df, signals, current_position, trades, equity_curve,
             performance_metrics, genVars, sig_i, stop_loss_pct>>

\* <<close, volume, days since the previous bar>> of the bars of a call.
SharedBarChoices == {<<110, 57, 1>>, <<50, 10, 1>>, <<100, 10, 1>>}

NextBarsShared(s) ==
    IF Len(s) - LookbackW < MaxScanShared
    THEN {PrepareRow(s, Bar(Last(s).date + c[3], c[1], c[1], c[1], c[1], c[2])) :
             c \in SharedBarChoices}
    ELSE {}

\* The locals of a call before its first statement.
NewCall ==
    [pc |-> "start", df |-> PrefixW(LookbackW), signals |-> <<>>,
     current_position |-> <<>>, trades |-> <<>>, equity_curve |-> <<>>,
     performance_metrics |-> <<>>]

\* The locals of call c with the capital of the engine, self.current_capital.
CallState(c) ==
    StateW(calls[c].df, calls[c].signals, calls[c].current_position,
           calls[c].trades, current_capital, calls[c].equity_curve)

\* Lines 116-125 of call c: the lists are local, the capital reset is not.
CallStart(c) ==
    /\ calls[c].pc = "start"
    /\ calls' = [calls EXCEPT ![c].pc = "scan"]
    /\ current_capital' = initial_capital
    /\ UNCHANGED <<runVars, symbols, sym_i, all_results, printed, response>>

\* One iteration of the loop of lines 128-155 of call c.
CallScanBar(c) ==
    /\ calls[c].pc = "scan"
    /\ \E bar \in NextBarsShared(calls[c].df) :
       \E st \in {ScanBarW(CallState(c), bar)} :
          /\ calls' = [calls EXCEPT ![c].df = st.df,
                                    ![c].signals = st.signals,
                                    ![c].current_position = st.current_position,
                                    ![c].trades = st.trades,
                                    ![c].equity_curve = st.equity_curve]
          /\ current_capital' = st.current_capital
    /\ UNCHANGED <<runVars, symbols, sym_i, all_results, printed, response>>

\* Lines 157-192 of call c.
CallFinish(c) ==
    /\ calls[c].pc = "scan"
    /\ \E r \in {FinishW(CallState(c))} :
          /\ calls' = [calls EXCEPT ![c].pc = r.pc,
                                    ![c].trades = r.trades,
                                    ![c].performance_metrics = r.performance_metrics]
          /\ current_capital' = r.current_capital
    /\ UNCHANGED <<runVars, symbols, sym_i, all_results, printed, response>>

InitShared ==
    /\ sim = "W"
    /\ pc = "calls"
    /\ df = <<>>
    /\ signals = <<>>
    /\ current_position = <<>>
    /\ trades = <<>>
    /\ current_capital = initial_capital
    /\ equity_curve = <<>>
    /\ performance_metrics = <<>>
    /\ in_trade = FALSE
    /\ current_trailing_stop = <<>>
    /\ highest_price_since_entry = <<>>
    /\ sig_i = 0
    /\ stop_loss_pct = 0
    /\ calls = [c \in Calls |-> NewCall]
    /\ symbols = <<>>
    /\ sym_i = 0
    /\ all_results = <<>>
    /\ printed = <<>>
    /\ response = "none"

NextShared ==
    \/ \E c \in Calls : CallStart(c)
    \/ \E c \in Calls : CallScanBar(c)
    \/ \E c \in Calls : CallFinish(c)

SpecShared == InitShared /\ [][NextShared]_vars

\* ================================================= sweeps over all symbols
\* routes/backtest_routes.py run_backtest, routes/stop_loss_routes.py
\* optimize_stop_loss_all and run_wyckoff_backtest.py run_wyckoff_backtest.
\* A symbol is what the database gives for it: query is "raises" when
\* db.execute_query raises for the symbol, else "rows", and rows is the
\* series read (<<>> when the symbol has no rows).

\* The series of the lookback followed by the bars of cs from index k on.
RECURSIVE SeriesLoopW(_, _, _)
SeriesLoopW(s, cs, k) ==
    IF k > Len(cs) THEN s
    ELSE SeriesLoopW(Append(s, PrepareRow(s, Bar(Last(s).date + cs[k][3], cs[k][1],
                                                  cs[k][1], cs[k][1], cs[k][1],
                                                  cs[k][2]))),
                     cs, k + 1)

\* <<close, volume, days since the previous bar>> of the bars after the
\* lookback: none, one quiet bar, a breakout that is held to the end.
SweepBarsW == {<<>>, <<<<100, 50, 1>>>>, <<<<110, 57, 1>>, <<120, 10, 1>>>>}

SymbolsW ==
    {[query |-> "raises", rows |-> <<>>], [query |-> "rows", rows |-> <<>>]}
    \cup {[query |-> "rows", rows |-> SeriesLoopW(PrefixW(LookbackW), cs, 1)] :
             cs \in SweepBarsW}

SymbolsS ==
    {[query |-> "raises", rows |-> <<>>], [query |-> "rows", rows |-> <<>>],
     [query |-> "rows", rows |-> PrefixS(LookbackS)],
     [query |-> "rows", rows |-> PrefixS(min_data_rows)]}

\* The loop of _generate_trading_signals over the rows of s from index k on.
RECURSIVE TradingSignalsLoop(_, _, _)
TradingSignalsLoop(s, k, sigs) ==
    IF k > Len(s) THEN sigs
    ELSE TradingSignalsLoop(s, k + 1,
             IF TradingSignalAction(s[k]) = "" THEN sigs
             ELSE Append(sigs, [date |-> s[k].date,
                                action |-> TradingSignalAction(s[k]),
                                price |-> s[k].close,
                                volume |-> s[k].volume]))

\* What no step of a sweep changes: the variables of a single run, the
\* concurrent calls and the symbols read from the database.
engineVars == <<sim, df, signals, current_position, trades, current_capital,
                equity_curve, performance_metrics, genVars, sig_i, stop_loss_pct,
                calls, symbols>>

\* performance_metrics['final_value'] raises KeyError.
NoFinalValue(result) == "final_value" \notin DOMAIN result.performance_metrics

\* ------------------------------------------------ backtest_routes.run_backtest
\* One iteration of the loop of lines 94-125.
BacktestRouteSymbol ==
    /\ sim = "backtest_route" /\ pc = "loop" /\ sym_i <= Len(symbols)
    /\ LET symbol_data == symbols[sym_i]
           backtest_result == RunBacktestW(symbol_data.rows)
       IN  all_results' =
               IF symbol_data.query = "raises"
               THEN Append(all_results, [symbol |-> sym_i, error |-> "execute_query"])
               ELSE IF symbol_data.rows = <<>>
               THEN all_results
               ELSE IF backtest_result.pc = "error"
               THEN Append(all_results, [symbol |-> sym_i, error |-> "run_backtest"])
               ELSE Append(all_results,
                           [symbol |-> sym_i,
                            performance_metrics |->
                                backtest_result.performance_metrics[1]])
    /\ sym_i' = sym_i + 1
    /\ UNCHANGED <<engineVars, pc, printed, response>>

\* Lines 127-159: the summary over the results without an error, and the
\* handler around the whole route.
BacktestRouteSummary ==
    /\ sim = "backtest_route" /\ pc = "loop" /\ sym_i > Len(symbols)
    /\ LET Successful(r) == "error" \notin DOMAIN r
           successful_results == SelectSeq(all_results, Successful)
       IN  response' =
               IF \E k \in 1..Len(successful_results) :
                     NoFinalValue(successful_results[k])
               THEN "internal_error"
               ELSE "ok"
    /\ pc' = "returned"
    /\ UNCHANGED <<engineVars, sym_i, all_results, printed>>

\* ------------------------------------- stop_loss_routes.optimize_stop_loss_all
\* One iteration of the loop of lines 166-209.
StopLossRouteSymbol ==
    /\ sim = "stop_loss_route" /\ pc = "loop" /\ sym_i <= Len(symbols)
    /\ LET symbol_data == symbols[sym_i]
       IN  all_results' =
               IF symbol_data.query = "raises"
               THEN all_results
               ELSE IF Len(symbol_data.rows) < min_data_rows
               THEN all_results
               ELSE Append(all_results,
                           [symbol |-> sym_i,
                            overall_optimal |->
                                FindOverallOptimal(symbol_data.rows,
                                    TradingSignalsLoop(symbol_data.rows,
                                                       LookbackS + 1, <<>>))])
    /\ sym_i' = sym_i + 1
    /\ UNCHANGED <<engineVars, pc, printed, response>>

\* Line 211.
StopLossRouteReturn ==
    /\ sim = "stop_loss_route" /\ pc = "loop" /\ sym_i > Len(symbols)
    /\ response' = "ok"
    /\ pc' = "returned"
    /\ UNCHANGED <<engineVars, sym_i, all_results, printed>>

\* ----------------------------------- run_wyckoff_backtest.run_wyckoff_backtest
\* One iteration of the loop of lines 95-124; get_stock_data_for_symbol
\* returns None when its query raises.
ScriptSymbol ==
    /\ sim = "report_script" /\ pc = "loop" /\ sym_i <= Len(symbols)
    /\ LET symbol_data == symbols[sym_i]
           run == RunBacktestW(symbol_data.rows)
           result == [symbol |-> sym_i,
                      performance_metrics |-> run.performance_metrics[1]]
       IN  IF symbol_data.query = "raises" \/ symbol_data.rows = <<>>
           THEN /\ printed' = Append(printed, [symbol |-> sym_i, text |-> "No data found"])
                /\ all_results' = all_results
           ELSE IF run.pc = "error"
           THEN /\ printed' = Append(printed, [symbol |-> sym_i, text |-> "Error"])
                /\ all_results' = all_results
           ELSE /\ all_results' = Append(all_results, result)
                /\ printed' = IF NoFinalValue(result)
                              THEN Append(printed, [symbol |-> sym_i, text |-> "Error"])
                              ELSE printed
    /\ sym_i' = sym_i + 1
    /\ UNCHANGED <<engineVars, pc, response>>

\* Lines 126-167 with generate_backtest_report, lines 169-177.
ScriptReport ==
    /\ sim = "report_script" /\ pc = "loop" /\ sym_i > Len(symbols)
    /\ response' =
           IF \E k \in 1..Len(all_results) : NoFinalValue(all_results[k])
           THEN "uncaught"
           ELSE "ok"
    /\ pc' = "returned"
    /\ UNCHANGED <<engineVars, sym_i, all_results, printed>>

\* The sequences of 1 to MaxSymbols symbols drawn from set.
SymbolLists(set) ==
    UNION {[1..n -> set] : n \in 1..MaxSymbols}

InitSweep ==
    /\ sim \in {"backtest_route", "stop_loss_route", "report_script"}
    /\ pc = "loop"
    /\ symbols \in IF sim = "stop_loss_route" THEN SymbolLists(SymbolsS)
                   ELSE SymbolLists(SymbolsW)
    /\ sym_i = 1
    /\ all_results = <<>>
    /\ printed = <<>>
    /\ response = "none"
    /\ df = <<>>
    /\ signals = <<>>
    /\ current_position = <<>>
    /\ trades = <<>>
    /\ current_capital = initial_capital
    /\ equity_curve = <<>>
    /\ performance_metrics = <<>>
    /\ in_trade = FALSE
    /\ current_trailing_stop = <<>>
    /\ highest_price_since_entry = <<>>
    /\ sig_i = 0
    /\ stop_loss_pct = 0
    /\ calls = <<>>

NextSweep ==
    \/ BacktestRouteSymbol
    \/ BacktestRouteSummary
    \/ StopLossRouteSymbol
    \/ StopLossRouteReturn
    \/ ScriptSymbol
    \/ ScriptReport

SpecSweep == InitSweep /\ [][NextSweep]_vars

\* =========================================================== E: a pullback
\* run_analysis on a series whose lookback bars hold a rally and a pullback:
\* flat at 100, six bars at 115, one bar back at 100.  At the first bar of
\* the signal loop the 21 EMA is above the 50 EMA and the last close is under
\* both, so a BUY can be signalled on a close between the two averages.
PullbackClose(k) ==
    IF k <= ema_50_period - 7 THEN 100 ELSE IF k <= ema_50_period - 1 THEN 115 ELSE 100

\* The first n rows of that series with the indicator columns of lines 116-118.
RECURSIVE PrefixPullback(_)
PrefixPullback(n) ==
    IF n <= 1 THEN PrefixE(1)
    ELSE LET s == PrefixPullback(n - 1)
         IN  Append(s, IndicatorRow(s, Bar(n, PullbackClose(n), PullbackClose(n),
                                           PullbackClose(n), PullbackClose(n), 10)))

InitPullback ==
    /\ sim = "E"
    /\ pc = "start"
    /\ df = PrefixPullback(ema_50_period)
    /\ signals = <<>>
    /\ current_position = <<>>
    /\ trades = <<>>
    /\ current_capital = initial_capital
    /\ equity_curve = <<>>
    /\ performance_metrics = <<>>
    /\ in_trade = FALSE
    /\ current_trailing_stop = <<>>
    /\ highest_price_since_entry = <<>>
    /\ sig_i = 0
    /\ stop_loss_pct = 0
    /\ NoCallers

NextPullback ==
    \/ EStart
    \/ EScanBar
    \/ EExecStart
    \/ EExecSignal
    \/ EFinish

SpecPullback == InitPullback /\ [][NextPullback]_vars
\* ============================================== A: WyckoffAnalysisService
\* ------------------------------------------------ A: _assess_current_phase
\* recent_data = df.tail(20)
RecentData(s) == SubSeq(s, Max2(1, Len(s) - 19), Len(s))


\* Lines 955-978: the five quantities handed to _classify_phase, each kept
\* as the pair (numerator, denominator) of the quotient the code takes;
\* a test q > c/100 on a quotient is num * 100 > c * den.  volume_sma_20 is
\* the mean of the same 20 volumes as avg_volume; with fewer than 20 rows or
\* a zero mean the ratio is 1.0, and so is the trend with an empty first half.
AssessMetrics(s) ==
    LET recent_data == RecentData(s)
        n == Len(recent_data)
        start_price == recent_data[1].close
        end_price == recent_data[n].close
        high_price == CHOOSE h \in {recent_data[k].high : k \in 1..n} :
                          \A k \in 1..n : recent_data[k].high <= h
        low_price == CHOOSE l \in {recent_data[k].low : k \in 1..n} :
                         \A k \in 1..n : recent_data[k].low >= l
        volume_sum == SumVolume(recent_data, 1, n)
        mid_point == n \div 2
        first_half == SumVolume(recent_data, 1, mid_point)
        second_half == SumVolume(recent_data, mid_point + 1, n)
        close_sum == SumClose(recent_data, 1, n)
    IN  [price_change_pct |-> <<end_price - start_price, start_price>>,
         price_range_pct |-> <<high_price - low_price, start_price>>,
         volume_ratio |-> IF Len(s) >= 20 /\ volume_sum > 0
                          THEN <<volume_sum, volume_sum>> ELSE <<1, 1>>,
         volume_trend |-> IF first_half > 0
                          THEN <<second_half * mid_point, first_half * (n - mid_point)>>
                          ELSE <<1, 1>>,
         price_vs_sma |-> IF close_sum > 0
                          THEN <<end_price * n - close_sum, close_sum>> ELSE <<0, 1>>]

\* q > c / 1000 and q < c / 1000 for a quotient q = <<num, den>>, den > 0.
Above(q, c) == q[1] * 1000 > c * q[2]
Below(q, c) == q[1] * 1000 < c * q[2]

\* ------------------------------------------------------ A: _classify_phase
\* The chain of lines 666-701; "" for None.
ClassifyPhase(m) ==
    IF Above(m.price_change_pct, 80) /\ Above(m.price_vs_sma, 20)
       /\ Above(m.volume_ratio, 1100)
    THEN "markup"
    ELSE IF Below(m.price_change_pct, 0 - 80) /\ Below(m.price_vs_sma, 0 - 20)
    THEN "markdown"
    ELSE IF Below(m.price_change_pct, 50) /\ Above(m.price_change_pct, 0 - 50)
            /\ Below(m.price_range_pct, 150) /\ Above(m.volume_ratio, 1000)
            /\ Above(m.volume_trend, 1050)
    THEN "accumulation"
    ELSE IF Below(m.price_change_pct, 50) /\ Above(m.price_change_pct, 0 - 50)
            /\ Below(m.price_range_pct, 150) /\ Above(m.volume_ratio, 1000)
            /\ Below(m.volume_trend, 950)
    THEN "distribution"
    ELSE IF Above(m.price_change_pct, 30) /\ Above(m.price_vs_sma, 10)
    THEN "markup"
    ELSE IF Below(m.price_change_pct, 0 - 30) /\ Below(m.price_vs_sma, 0 - 10)
    THEN "markdown"
    ELSE ""

\* phase.title(); "Unclassified" stands for the None of no clear phase.
Title(phase) ==
    CASE phase = "markup"       -> "Markup"
      [] phase = "markdown"     -> "Markdown"
      [] phase = "accumulation" -> "Accumulation"
      [] phase = "distribution" -> "Distribution"
      [] OTHER                  -> "Unclassified"
\* ------------------------------------------------ A: _identify_trading_ranges
\* Rows are numbered from 1: row k is df.iloc[k - 1], and start_idx, end_idx
\* and the centre are row numbers.
MinLow(s, lo, hi) ==
    CHOOSE l \in {s[k].low : k \in lo..hi} : \A k \in lo..hi : s[k].low >= l
MaxHigh(s, lo, hi) ==
    CHOOSE h \in {s[k].high : k \in lo..hi} : \A k \in lo..hi : s[k].high <= h

RECURSIVE SumCloseSquares(_, _, _)
SumCloseSquares(s, lo, hi) ==
    IF lo > hi THEN 0 ELSE s[lo].close * s[lo].close + SumCloseSquares(s, lo + 1, hi)

\* _is_trading_range on rows lo..hi: close.std() / close.mean() < 0.15 and
\* (high.max() - low.min()) / close.mean() < 0.25.  With n rows, sum S and
\* sum of squares Q the squared first quotient is n (n Q - S^2) / ((n - 1) S^2).
IsTradingRange(s, lo, hi) ==
    LET n == hi - lo + 1
        S == SumClose(s, lo, hi)
        spread == n * SumCloseSquares(s, lo, hi) - S * S
    IN  /\ (n * spread * 400) \div S < 9 * (n - 1) * S
        /\ (MaxHigh(s, lo, hi) - MinLow(s, lo, hi)) * n * 4 < S

\* Line 224 and line 231: the bar is outside the band of 5% around the levels.
LeavesBand(row, support, resistance) ==
    \/ row.low * 100 < support * 95
    \/ row.high * 100 > resistance * 105

\* _find_trading_range_bounds(df, center_idx): <<start_idx, end_idx>>.
FindTradingRangeBounds(s, center) ==
    LET support == MinLow(s, center - 15, center + 14)
        resistance == MaxHigh(s, center - 15, center + 14)
        before == {i \in 1..(center - 1) : LeavesBand(s[i], support, resistance)}
        after == {i \in (center + 1)..Len(s) : LeavesBand(s[i], support, resistance)}
    IN  <<IF before = {} THEN center
          ELSE (CHOOSE i \in before : \A j \in before : j <= i) + 1,
          IF after = {} THEN center
          ELSE (CHOOSE i \in after : \A j \in after : j >= i) - 1>>

\* The iteration of lines 177-193 for one centre: <<>> or <<the range>>.
TradingRangeAt(s, center) ==
    LET lo == center - window_size
        hi == center + window_size - 1
        bounds == FindTradingRangeBounds(s, center)
    IN  IF IsTradingRange(s, lo, hi) /\ bounds[2] - bounds[1] >= window_size
        THEN <<[start_idx |-> bounds[1], end_idx |-> bounds[2],
                support |-> MinLow(s, lo, hi), resistance |-> MaxHigh(s, lo, hi)]>>
        ELSE <<>>

\* for i in range(window_size, len(df) - window_size), from centre on.
RECURSIVE TradingRangesLoop(_, _, _)
TradingRangesLoop(s, center, trading_ranges) ==
    IF center > Len(s) - window_size THEN trading_ranges
    ELSE TradingRangesLoop(s, center + 1, trading_ranges \o TradingRangeAt(s, center))

IdentifyTradingRanges(s) == TradingRangesLoop(s, window_size + 1, <<>>)

\* ---------------------------------------- A: _analyze_trading_range_phases
\* _determine_trading_range_type on rows lo..hi: the days with a volume above
\* 1.5 times the average, split into down days and up days.
DetermineTradingRangeType(s, lo, hi) ==
    LET high_volume_days ==
            {k \in lo..hi : s[k].volume * (hi - lo + 1) * 2 > 3 * SumVolume(s, lo, hi)}
        down_volume == {k \in high_volume_days : s[k].close < s[k].open}
        up_volume == {k \in high_volume_days : s[k].close > s[k].open}
    IN  IF high_volume_days # {}
        THEN IF Cardinality(down_volume) > Cardinality(up_volume)
             THEN "accumulation" ELSE "distribution"
        ELSE "accumulation"

\* _identify_phase_c_accumulation: the bars of the range at or below
\* support_level * (1 - spring_threshold), support_level the lowest low of
\* the range itself.
SpringCandidates(s, lo, hi) ==
    {k \in lo..hi : s[k].low * 100 <= MinLow(s, lo, hi) * (100 - spring_threshold)}

\* _identify_phase_d_accumulation: the bars of the range that close above
\* resistance_level * 1.02, resistance_level the highest high of the range itself.
BreakoutCandidates(s, lo, hi) ==
    {k \in lo..hi : s[k].close * 100 > MaxHigh(s, lo, hi) * 102}

\* The phase names _identify_accumulation_phases returns for the range, B to
\* D; _identify_distribution_phases returns none.  Phase A (a selling climax
\* by volume quantile) is left out: it adds a name and changes no other.
AnalyzeTradingRangePhases(s, tr) ==
    IF DetermineTradingRangeType(s, tr.start_idx, tr.end_idx) = "accumulation"
    THEN {"Phase B - Building Cause"}
         \cup (IF SpringCandidates(s, tr.start_idx, tr.end_idx) # {}
               THEN {"Phase C - Spring Test"} ELSE {})
         \cup (IF BreakoutCandidates(s, tr.start_idx, tr.end_idx) # {}
               THEN {"Phase D - Markup"} ELSE {})
    ELSE {}
\* ------------------------------------------- A: _generate_wyckoff_signals
\* df['volume_ratio'].tail(5).mean() in 1/1000, NaN rows skipped; <<>> for NaN.
RecentVolume(s) ==
    LET rows == {k \in 1..Len(s) : k > Len(s) - 5 /\ ~s[k].volume_ratio_nan}
    IN  IF rows = {} THEN <<>>
        ELSE <<SumVolumeRatio(s, Max2(1, Len(s) - 4), Len(s)) \div Cardinality(rows)>>

\* Lines 1080-1097: primary_signal.
PrimarySignal(phase, recent_volume) ==
    IF phase = "Accumulation"
    THEN IF recent_volume # <<>> /\ recent_volume[1] > 1500 THEN "BUY" ELSE "HOLD"
    ELSE IF phase = "Distribution"
    THEN IF recent_volume # <<>> /\ recent_volume[1] > 1500 THEN "SELL" ELSE "HOLD"
    ELSE IF phase = "Markup" THEN "BUY"
    ELSE IF phase = "Markdown" THEN "SELL"
    ELSE "HOLD"

\* _assess_current_phase: <<>> for None, else <<the phase dict>>.
AssessCurrentPhase(s) ==
    IF ClassifyPhase(AssessMetrics(s)) = "" THEN <<>>
    ELSE <<[phase |-> Title(ClassifyPhase(AssessMetrics(s)))]>>

\* _generate_wyckoff_signals(df, current_phase): current_phase['confidence']
\* of line 1072 raises TypeError on None.
GenerateWyckoffSignals(s, current_phase) ==
    IF current_phase = <<>> THEN [raises |-> "TypeError"]
    ELSE [primary_signal |-> PrimarySignal(current_phase[1].phase, RecentVolume(s)),
          recent_volume |-> RecentVolume(s)]

\* ------------------------------------------------------------ A: inputs
\* The series handed to the service: a first bar that is flat or has a low
\* of 90, then flat bars at 100 with volume 10, 2 * window_size + 2 in all.
PrefixA(first_low) ==
    [k \in 1..(2 * window_size + 2) |->
        [date |-> k, open |-> 100, high |-> 100,
         low |-> IF k = 1 THEN first_low ELSE 100, close |-> 100,
         volume |-> 10, volume_ratio_nan |-> k < Window,
         volume_ratio |-> IF k < Window THEN 0 ELSE 1000]]

\* <<open, high, low, close>> of the bars that may follow, volume 10.
ABarChoices ==
    {<<100, 100, 100, 100>>, <<100, 104, 100, 104>>, <<100, 100, 95, 100>>,
     <<100, 100, 90, 90>>, <<100, 110, 100, 110>>}

NextBarsA(s) ==
    IF Len(s) - (2 * window_size + 2) < MaxBarsA
    THEN {PrepareRow(s, Bar(Last(s).date + 1, c[1], c[2], c[3], c[4], 10)) :
             c \in ABarChoices}
    ELSE {}

\* --------------------------------------------- A: analyze_wyckoff_phases
\* The caller's series grows by one bar before the call.
ABar ==
    /\ sim = "A" /\ pc = "input"
    /\ \E row \in NextBarsA(df) : df' = Append(df, row)
    /\ UNCHANGED <<sim, pc, signals, current_position, trades, current_capital,
                   equity_curve, performance_metrics, genVars, sig_i, stop_loss_pct>>
    /\ UNCHANGED callerVars

\* Lines 56-74: the call, up to the trading ranges and their phases.
ARanges ==
    /\ sim = "A" /\ pc = "input"
    /\ \E trading_ranges \in {IdentifyTradingRanges(df)} :
          performance_metrics' =
              <<[trading_ranges |-> trading_ranges,
                 phases |-> [k \in 1..Len(trading_ranges) |->
                                AnalyzeTradingRangePhases(df, trading_ranges[k])]]>>
    /\ pc' = "assess"
    /\ UNCHANGED <<sim, df, signals, current_position, trades, current_capital,
                   equity_curve, genVars, sig_i, stop_loss_pct>>
    /\ UNCHANGED callerVars

\* Lines 83-126: the current phase and the signals, then the result; the
\* handler of lines 121-126 turns an exception into an error result.
ASignals ==
    /\ sim = "A" /\ pc = "assess"
    /\ \E generated \in {GenerateWyckoffSignals(df, AssessCurrentPhase(df))} :
          IF "raises" \in DOMAIN generated
          THEN /\ performance_metrics' = <<[error |-> generated.raises]>>
               /\ pc' = "error"
          ELSE /\ performance_metrics' =
                      <<[current_phase |-> AssessCurrentPhase(df),
                         signals |-> generated] @@ performance_metrics[1]>>
               /\ pc' = "done"
    /\ UNCHANGED <<sim, df, signals, current_position, trades, current_capital,
                   equity_curve, genVars, sig_i, stop_loss_pct>>
    /\ UNCHANGED callerVars

InitAnalysis ==
    /\ sim = "A"
    /\ pc = "input"
    /\ df \in {PrefixA(100), PrefixA(90)}
    /\ signals = <<>>
    /\ current_position = <<>>
    /\ trades = <<>>
    /\ current_capital = initial_capital
    /\ equity_curve = <<>>
    /\ performance_metrics = <<>>
    /\ in_trade = FALSE
    /\ current_trailing_stop = <<>>
    /\ highest_price_since_entry = <<>>
    /\ sig_i = 0
    /\ stop_loss_pct = 0
    /\ NoCallers

NextAnalysis ==
    \/ ABar
    \/ ARanges
    \/ ASignals

SpecAnalysis == InitAnalysis /\ [][NextAnalysis]_vars
\* ==================================================================== claims
Done == pc = "done"
Metrics == performance_metrics[1]
\* A position is open: the run has not returned and current_position is not None.
HasOpenPosition == pc \in {"scan", "exec"} /\ current_position # <<>>

\* ------------------------------------------------------------------------ C1
\* C1 as stated: at most one position is open, and each trade of the list
\* enters strictly after the exit date of the trade before it, in all three
\* simulators.
C1_StrictlyLater ==
    /\ Len(current_position) <= 1
    /\ \A k \in 2..Len(trades) : trades[k].entry_date > trades[k - 1].exit_date

\* C1 amended: at most one position is open, no trade exits before it enters,
\* and each trade (and the open position) enters no earlier than the exit date
\* of the trade before it: strictly later in the moving-average and the
\* stop-loss simulators, possibly on that very date in the phase-based one.
C1_NoOverlap ==
    /\ Len(current_position) <= 1
    /\ \A k \in 1..Len(trades) : trades[k].exit_date >= trades[k].entry_date
    /\ \A k \in 2..Len(trades) :
          /\ trades[k].entry_date >= trades[k - 1].exit_date
          /\ sim # "W" => trades[k].entry_date > trades[k - 1].exit_date
    /\ (HasOpenPosition /\ trades # <<>>) =>
          /\ current_position[1].entry_date >= Last(trades).exit_date
          /\ sim # "W" => current_position[1].entry_date > Last(trades).exit_date

\* A phase-based run that closed a position and opened the next on the same bar.
C1_Witness ==
    /\ sim = "W" /\ Len(trades) >= 2
    /\ trades[2].entry_date = trades[1].exit_date

\* ------------------------------------------------------------------------ C2
\* Row j of the series is the first bar after the entry of a long position
\* whose close is at or below the stop level entry_price * (1 - pct / 100).
FirstStopCross(j, entry_date, entry_price, pct) ==
    /\ df[j].date > entry_date
    /\ df[j].close * 100 <= entry_price * (100 - pct)
    /\ \A i \in 1..(j - 1) :
          df[i].date > entry_date => df[i].close * 100 > entry_price * (100 - pct)

\* C2: a long position still open on the first bar that crosses its stop level
\* is closed on that bar, and the trade records a stop-loss exit reason; no
\* open long position has a crossing bar behind it.
C2_StopLossOnCrossingBar ==
    /\ sim = "W" =>
          /\ \A k \in 1..Len(trades) : \A j \in 1..Len(df) :
                (/\ trades[k].action = "BUY"
                 /\ df[j].date <= trades[k].exit_date
                 /\ FirstStopCross(j, trades[k].entry_date, trades[k].entry_price,
                                   stop_loss_percent))
                => /\ trades[k].exit_date = df[j].date
                   /\ trades[k].exit_reasoning = "stop-loss"
          /\ HasOpenPosition =>
                \A j \in 1..Len(df) :
                    current_position[1].action = "BUY" =>
                    ~FirstStopCross(j, current_position[1].entry_date,
                                    current_position[1].entry_price, stop_loss_percent)
    /\ (sim = "S" /\ pc \in {"exec", "done"}) =>
          \A k \in 1..Len(trades) : \A j \in 1..Len(df) :
                (/\ df[j].date <= trades[k].exit_date
                 /\ FirstStopCross(j, trades[k].entry_date, trades[k].entry_price,
                                   stop_loss_pct))
                => /\ trades[k].exit_date = df[j].date
                   /\ trades[k].exit_reason = "Stop Loss"

\* ------------------------------------------------------------------------ C3
\* A scan step of the phase-based simulator taken with a position open.
C3_Step == sim = "W" /\ pc = "scan" /\ pc' = "scan" /\ current_position # <<>>
C3_Closed == Len(trades') = Len(trades) + 1
C3_Long == current_position[1].action = "BUY"
C3_EntryRow == CHOOSE k \in 1..Len(df) : df[k].date = current_position[1].entry_date
C3_BarsElapsed == Len(df') - C3_EntryRow >= max_trade_duration
C3_DaysElapsed == Last(df').date - current_position[1].entry_date >= max_trade_duration
C3_StopLoss ==
    IF C3_Long
    THEN Last(df').close * 100 <= current_position[1].entry_price * (100 - stop_loss_percent)
    ELSE Last(df').close * 100 >= current_position[1].entry_price * (100 + stop_loss_percent)
C3_TakeProfit ==
    IF C3_Long
    THEN Last(df').close * 100 >= current_position[1].entry_price * (100 + take_profit_percent)
    ELSE Last(df').close * 100 <= current_position[1].entry_price * (100 - take_profit_percent)
C3_OpposingPhase ==
    IF C3_Long THEN Last(signals').phase = "Distribution"
    ELSE Last(signals').phase = "Accumulation"
C3_OppositeAction ==
    IF C3_Long THEN Last(signals').action = "SELL" ELSE Last(signals').action = "BUY"

\* C3 as stated: with a position open, a bar closes it exactly when one of the
\* five triggers holds: 60 bars held, stop-loss, take-profit, opposing phase,
\* opposite signal action.
C3_FiveTriggers ==
    [][C3_Step => (C3_Closed <=> (\/ C3_BarsElapsed \/ C3_StopLoss \/ C3_TakeProfit
                                  \/ C3_OpposingPhase \/ C3_OppositeAction))]_vars

\* C3 amended: with a position open, a bar closes it exactly when one of four
\* triggers holds: 60 calendar days since the entry date, stop-loss,
\* take-profit, opposing phase.  An opposite signal action alone closes nothing.
C3_FourTriggers ==
    [][C3_Step => (C3_Closed <=> (\/ C3_DaysElapsed \/ C3_StopLoss \/ C3_TakeProfit
                                  \/ C3_OpposingPhase))]_vars

\* A long position closed by the opposing phase alone: held under 60 days and
\* closed at its entry price, so neither stop-loss nor take-profit applied.
C3_Witness ==
    /\ sim = "W" /\ pc = "scan"
    /\ \E k \in 1..Len(trades) :
          /\ trades[k].action = "BUY" /\ trades[k].exit_phase = "Distribution"
          /\ trades[k].duration_days < max_trade_duration
          /\ trades[k].exit_price = trades[k].entry_price

\* ------------------------------------------------------------------------ C4
\* C4: while the phase-based simulator scans the flat 100-bar series no signal
\* is Buy or Sell, no position is open, no trade is made and every equity
\* point equals the initial capital.
C4_FlatSeriesStaysFlat ==
    (sim = "W" /\ IsFlat(df) /\ Len(df) <= FlatLen) =>
        /\ \A k \in 1..Len(signals) : signals[k].action = "HOLD"
        /\ current_position = <<>>
        /\ trades = <<>>
        /\ \A k \in 1..Len(equity_curve) : equity_curve[k].value = initial_capital

\* ------------------------------------------------------------------------ C5
\* C5: a bar on which no classification rule matches has phase Unclassified
\* and its signal is Hold.
C5_OtherwiseIsUnclassifiedHold ==
    sim = "W" =>
        \A k \in 1..Len(signals) :
            signals[k].branch = "else" =>
                /\ signals[k].phase = "Unclassified"
                /\ signals[k].action = "HOLD"

\* ------------------------------------------------------------------------ C6
\* C6: a run over fewer than 50 bars (each simulator computes a 50-bar
\* indicator: sma_50 or ema_50) ends in the error state, with no result, no
\* signal and no trade.
C6_InsufficientData ==
    (Len(df) < ema_50_period /\ pc \in {"done", "error"}) =>
        /\ pc = "error"
        /\ performance_metrics = <<>>
        /\ signals = <<>>
        /\ trades = <<>>

C8_Breakeven == Cardinality({k \in 1..Len(trades) : trades[k].pnl = 0})

\* C8 as stated: the metrics report a breakeven_trades count, and the reported
\* counts satisfy total_trades = winning_trades + losing_trades +
\* breakeven_trades.
C8_ReportedCounts ==
    Done =>
        /\ "breakeven_trades" \in DOMAIN Metrics
        /\ Metrics.total_trades =
              Metrics.winning_trades + Metrics.losing_trades + Metrics.breakeven_trades

\* C8 amended: no breakeven count is reported; the reported total is the number of closed trades, the reported winners
\* and losers are the trades with pnl > 0 and pnl < 0, and total = winners +
\* losers + the number of trades with pnl = 0.
C8_CountsPartition ==
    Done =>
        /\ "breakeven_trades" \notin DOMAIN Metrics
        /\ Metrics.total_trades = Len(trades)
        /\ Metrics.winning_trades = Cardinality({k \in 1..Len(trades) : trades[k].pnl > 0})
        /\ Metrics.losing_trades = Cardinality({k \in 1..Len(trades) : trades[k].pnl < 0})
        /\ Metrics.total_trades =
              Metrics.winning_trades + Metrics.losing_trades + C8_Breakeven

\* A completed run with a winner, a loser and a breakeven trade.
C8_Witness ==
    /\ Done
    /\ Metrics.winning_trades > 0 /\ Metrics.losing_trades > 0 /\ C8_Breakeven > 0

\* ------------------------------------------------------------------------ C9
\* C9: the reported max drawdown of a completed run is a percentage between 0
\* and 100 (percentages of W and S are in 1/10 percent).
C9_DrawdownIsPercentage ==
    Done =>
        /\ sim = "W" =>
              IF trades = <<>> THEN Metrics.max_drawdown = 0
              ELSE Metrics.max_drawdown_percent >= 0 /\ Metrics.max_drawdown_percent <= 1000
        /\ sim = "E" => Metrics.max_drawdown >= 0 /\ Metrics.max_drawdown <= 100
        /\ sim = "S" => Metrics.max_drawdown >= 0 /\ Metrics.max_drawdown <= 1000

\* ----------------------------------------------------------------------- C10
\* C10: profit_factor is never negative and is exactly 0 in a run without a
\* winning trade.
C10_ProfitFactor ==
    (Done /\ sim \in {"W", "S"}) =>
        /\ Metrics.profit_factor.inf \/ Metrics.profit_factor.num >= 0
        /\ Metrics.profit_factor.den > 0
        /\ Metrics.winning_trades = 0 =>
              ~Metrics.profit_factor.inf /\ Metrics.profit_factor.num = 0

\* ----------------------------------------------------------------------- C12
\* The run returned with a position that was still open when the scan ended:
\* the finishing step leaves current_position as the loop left it.
C12_ClosedAtEnd == Done /\ current_position # <<>>
C12_FinalTrade ==
    /\ trades # <<>>
    /\ Last(trades).entry_date = current_position[1].entry_date
    /\ Last(trades).entry_price = current_position[1].entry_price
    /\ Last(trades).exit_date = Last(df).date
    /\ Last(trades).exit_price = Last(df).close
C12_AllClosed ==
    \A k \in 1..Len(trades) : trades[k].exit_date >= trades[k].entry_date

\* C12 as stated: a position open at the end of the series is closed at the
\* final close and its trade records the exit reason "period end" (letter case
\* aside); every returned trade is closed with exit_date >= entry_date.
C12_PeriodEndReason ==
    /\ Done => C12_AllClosed
    /\ C12_ClosedAtEnd =>
          /\ C12_FinalTrade
          /\ sim = "W" => Last(trades).exit_reasoning \in {"period end", "Period End"}
          /\ sim # "W" => Last(trades).exit_reason \in {"period end", "Period End"}

\* C12 amended: a position open at the end of the series is closed at the final
\* bar's date and close; the phase-based trade records exit_reasoning "End of
\* backtest period", the moving-average trade exit_signal "End of period -
\* position closed" with exit_reason None, the stop-loss trade exit_reason
\* "Period End"; every returned trade has exit_date >= entry_date.
C12_ForcedClose ==
    /\ Done => C12_AllClosed
    /\ C12_ClosedAtEnd =>
          /\ C12_FinalTrade
          /\ sim = "W" => Last(trades).exit_reasoning = "End of backtest period"
          /\ sim = "E" => /\ Last(trades).exit_signal = "End of period - position closed"
                          /\ Last(trades).exit_reason = "None"
          /\ sim = "S" => Last(trades).exit_reason = "Period End"

\* A stop-loss run that ended with a position open, closed at a final close
\* that differs from the entry price.
C12_Witness ==
    /\ sim = "S" /\ C12_ClosedAtEnd
    /\ Last(trades).exit_reason = "Period End"
    /\ Last(trades).exit_price # Last(trades).entry_price

\* ----------------------------------------------------------------------- C13
\* A scan step of the phase-based simulator taken with no position open, on a
\* bar whose 20-bar window takes the markup rule (price_trend > 0.05 and
\* volume_trend > 1.1; with the bar <<110, 57, 1>> after flat bars the window
\* rose +10% and volume_trend is 1.301).
C13_Step ==
    /\ sim = "W" /\ pc = "scan" /\ pc' = "scan" /\ current_position = <<>>
    /\ Last(signals').branch = "markup"
C13_MarkupBuy ==
    /\ Last(signals').phase = "Markup"
    /\ Last(signals').action = "BUY"
    /\ Last(signals').date = Last(df').date
C13_Affordable == (current_capital * position_size_percent) \div (Last(df').close * 100) > 0

\* C13 as stated: the bar is Markup, its signal is Buy, and no position is
\* opened on the signal bar itself (the entry waits for the following bar).
C13_EntryOnNextBar ==
    [][C13_Step => (C13_MarkupBuy /\ current_position' = <<>>)]_vars

\* C13 amended: the bar is Markup, its signal is Buy, and the position is
\* opened on the signal bar itself, with the signal bar's date as entry_date
\* and its close as entry_price (when the capital buys at least one share).
C13_EntryOnSignalBar ==
    [][C13_Step =>
        /\ C13_MarkupBuy
        /\ IF C13_Affordable
           THEN /\ current_position' # <<>>
                /\ current_position'[1].action = "BUY"
                /\ current_position'[1].entry_date = Last(df').date
                /\ current_position'[1].entry_price = Last(df').close
                /\ current_position'[1].entry_phase = "Markup"
           ELSE current_position' = <<>>]_vars

\* The first scanned bar closes at 110 after 30 flat bars at 100 with
\* volume_trend 1.301, and the position is open on that bar.
C13_Witness ==
    /\ sim = "W" /\ pc = "scan" /\ Len(signals) = 1 /\ trades = <<>>
    /\ signals[1].branch = "markup" /\ signals[1].volume_ratio = 1301
    /\ Last(df).close * 10 = df[Len(df) - Window + 1].close * 11
    /\ current_position # <<>>
    /\ current_position[1].entry_date = signals[1].date

\* ----------------------------------------------------------------------- C20
\* Mark-to-close unrealized P&L of the phase-based position at the last bar.
C20_UnrealizedW ==
    IF current_position = <<>> THEN 0
    ELSE IF current_position[1].action = "BUY"
    THEN (Last(df).close - current_position[1].entry_price) * current_position[1].shares
    ELSE (current_position[1].entry_price - Last(df).close) * current_position[1].shares
\* P&L of the moving-average trades closed up to row k of the series.
RECURSIVE C20_RealizedE(_, _)
C20_RealizedE(k, n) ==
    IF n = 0 THEN 0
    ELSE C20_RealizedE(k, n - 1)
         + (IF trades[n].exit_date <= df[k].date THEN trades[n].pnl ELSE 0)
\* Mark-to-close unrealized P&L at row k of the moving-average trades that are
\* entered before row k and not yet closed on it.
RECURSIVE C20_UnrealizedE(_, _)
C20_UnrealizedE(k, n) ==
    IF n = 0 THEN 0
    ELSE C20_UnrealizedE(k, n - 1)
         + (IF trades[n].entry_date < df[k].date /\ df[k].date < trades[n].exit_date
            THEN trades[n].shares * (df[k].close - trades[n].entry_price)
            ELSE 0)

\* C20: the equity value of every scanned bar is the initial capital plus the
\* P&L of the trades closed so far plus the unrealized P&L of the open position
\* at the bar's close (phase-based: the point of the bar just scanned;
\* moving-average: every point of the returned curve).
C20_EquityIsMarkToClose ==
    /\ (sim = "W" /\ pc = "scan" /\ equity_curve # <<>>) =>
          Last(equity_curve).value =
              initial_capital + SumSeq(Pnls(trades)) + C20_UnrealizedW
    /\ (sim = "E" /\ Done) =>
          \A k \in 1..Len(equity_curve) :
              equity_curve[k].value =
                  initial_capital + C20_RealizedE(k, Len(trades))
                  + C20_UnrealizedE(k, Len(trades))

\* ----------------------------------------------------------------------- C14
C14_NonOverlapping(periods) ==
    \A j, k \in 1..Len(periods) :
        j < k => periods[j].period_end < periods[k].period_start
C14_OneBucketPerDate(periods) ==
    \A r \in 1..Len(df) :
        Cardinality({k \in 1..Len(periods) :
            periods[k].period_start <= df[r].date /\ df[r].date <= periods[k].period_end}) = 1
C14_Clipped(periods) ==
    \A k \in 1..Len(periods) :
        /\ df[1].date <= periods[k].period_start
        /\ periods[k].period_start <= periods[k].period_end
        /\ periods[k].period_end <= Last(df).date

\* C14: the monthly, the quarterly and the yearly buckets of the series are
\* pairwise non-overlapping, every bar date lies in exactly one bucket, and
\* every bucket lies within the first and the last date of the data.
C14_CalendarBuckets ==
    (sim = "S" /\ pc \in {"scan", "optimized"}) =>
        \A period_type \in {"monthly", "quarterly", "yearly"} :
            /\ C14_NonOverlapping(PeriodsOf(df, period_type))
            /\ C14_OneBucketPerDate(PeriodsOf(df, period_type))
            /\ C14_Clipped(PeriodsOf(df, period_type))

\* ----------------------------------------------------------------------- C11
Optimization == performance_metrics[1]
C11_Results(period_type) ==
    CASE period_type = "monthly"   -> Optimization.monthly_results
      [] period_type = "quarterly" -> Optimization.quarterly_results
      [] period_type = "yearly"    -> Optimization.yearly_results
\* The number of signals dated within the period.
C11_SignalCount(period) ==
    Cardinality({k \in 1..Len(signals) :
        period.period_start <= signals[k].date /\ signals[k].date <= period.period_end})
\* The buckets of the granularity that hold at least 5 signals, in order.
C11_Retained(period_type) ==
    SelectSeq(PeriodsOf(df, period_type), LAMBDA period : C11_SignalCount(period) >= 5)

\* C11: in each granularity's results list a bucket with fewer than 5 signals
\* has no StopLossResult and a bucket with at least 5 signals has exactly one:
\* the list is as long as the sequence of buckets with at least 5 signals and
\* its k-th result carries the period of the k-th of them.
C11_MinimumSampleRule ==
    (sim = "S" /\ pc = "optimized") =>
        \A period_type \in {"monthly", "quarterly", "yearly"} :
            /\ Len(C11_Results(period_type)) = Len(C11_Retained(period_type))
            /\ \A k \in 1..Len(C11_Results(period_type)) :
                  /\ C11_Results(period_type)[k].period_start
                        = C11_Retained(period_type)[k].period_start
                  /\ C11_Results(period_type)[k].period_end
                        = C11_Retained(period_type)[k].period_end

\* The monthly buckets hold 2 and 3 signals and give no result, the quarter
\* holds all 5 signals and gives one.
C11_Witness ==
    /\ sim = "S" /\ pc = "optimized"
    /\ \E k \in 1..Len(PeriodsOf(df, "monthly")) :
          C11_SignalCount(PeriodsOf(df, "monthly")[k]) = 3
    /\ Optimization.monthly_results = <<>>
    /\ Len(Optimization.quarterly_results) = 1
    /\ Len(signals) = 5

\* ----------------------------------------------------------------------- C15
\* The backtest of candidate q over the bucket of a kept result.
C15_Candidate(result, q) ==
    BacktestWithStopLoss(df, PeriodSignals(signals, result), q,
                         result.period_start, result.period_end)
C15_AllResults ==
    Optimization.monthly_results \o Optimization.quarterly_results
    \o Optimization.yearly_results

\* C15: every kept StopLossResult is the backtest of a candidate of the grid
\* over its bucket, no candidate scores higher on that bucket, and every
\* smaller candidate scores strictly lower (a tie keeps the smallest).
C15_BestCandidateKept ==
    (sim = "S" /\ pc = "optimized") =>
        \A k \in 1..Len(C15_AllResults) :
            LET result == C15_AllResults[k] IN
            /\ result.optimal_stop_loss \in test_intervals
            /\ result = C15_Candidate(result, result.optimal_stop_loss)
            /\ \A q \in test_intervals :
                  /\ PeriodScore(C15_Candidate(result, q)) <= PeriodScore(result)
                  /\ q < result.optimal_stop_loss =>
                        PeriodScore(C15_Candidate(result, q)) < PeriodScore(result)

\* A kept result whose candidate is above 2%, beats a smaller candidate and
\* ties with a larger one.
C15_Witness ==
    /\ sim = "S" /\ pc = "optimized"
    /\ \E k \in 1..Len(C15_AllResults) :
          /\ C15_AllResults[k].optimal_stop_loss > 2
          /\ \E q \in test_intervals :
                /\ q > C15_AllResults[k].optimal_stop_loss
                /\ PeriodScore(C15_Candidate(C15_AllResults[k], q))
                      = PeriodScore(C15_AllResults[k])

\* ----------------------------------------------------------------------- C16
\* The composite score of the backtest of candidate q over the whole series.
C16_Score(q) ==
    OverallScore(BacktestWithStopLoss(df, signals, q, df[1].date, Last(df).date))

\* C16: overall_optimal is a candidate of the grid and no candidate has a
\* higher composite score over the whole series.
C16_OverallOptimal ==
    (sim = "S" /\ pc = "optimized") =>
        /\ Optimization.overall_optimal \in test_intervals
        /\ \A q \in test_intervals : C16_Score(q) <= C16_Score(Optimization.overall_optimal)

\* An overall optimum other than the first candidate and the default, with a
\* strictly higher score than both.
C16_Witness ==
    /\ sim = "S" /\ pc = "optimized"
    /\ Optimization.overall_optimal \notin {2, 8}
    /\ C16_Score(2) < C16_Score(Optimization.overall_optimal)
    /\ C16_Score(8) < C16_Score(Optimization.overall_optimal)

\* ----------------------------------------------------------------------- C18
\* seq is a prefix of seq2.
C18_Prefix(seq, seq2) ==
    Len(seq) <= Len(seq2) /\ SubSeq(seq2, 1, Len(seq)) = seq

\* Scanning one more bar leaves everything recorded for the bars before it
\* as it was.
C18_ScanStep ==
    (sim \in {"W", "E"} /\ pc = "scan" /\ pc' = "scan") =>
        /\ C18_Prefix(df, df')
        /\ C18_Prefix(signals, signals')
        /\ C18_Prefix(equity_curve, equity_curve')
        /\ C18_Prefix(trades, trades')

\* _execute_trades on the scanned series followed by the bar row, with the
\* signals of the scanned bars.
C18_ExecutedWith(row) ==
    ExecuteTradesLoop(Append(df, row), signals, 1,
                      [current_position |-> <<>>,
                       current_capital |-> initial_capital,
                       trades |-> <<>>])

\* Two series that agree on the scanned bars and differ in the bar after them
\* give the same position, capital and closed trades for the scanned bars.
C18_SameUpToLastBar ==
    (sim = "E" /\ pc = "scan") =>
        \A r1, r2 \in NextBarsE(df) : C18_ExecutedWith(r1) = C18_ExecutedWith(r2)

\* C18: no look-ahead: what the scan records for the bars up to i (signals,
\* position, equity points, closed trades) is the same for any two series
\* that agree on the bars up to i.
C18_NoLookAhead == [][C18_ScanStep]_vars /\ []C18_SameUpToLastBar

\* ----------------------------------------------------------------------- C19
\* What call c returned equals what run_backtest returns for its series on
\* an engine of its own.
C19_AsAlone(c) ==
    LET alone == RunBacktestW(calls[c].df)
    IN  /\ calls[c].trades = alone.trades
        /\ calls[c].equity_curve = alone.equity_curve
        /\ calls[c].performance_metrics = alone.performance_metrics

\* C19: two calls of run_backtest on one engine, one after the other in
\* either order or with their bar scans interleaved, each return the trades,
\* the equity curve and the metrics of the run alone.
C19_CallsIndependent ==
    \A c \in Calls : calls[c].pc = "done" => C19_AsAlone(c)

\* ----------------------------------------------------------------------- C17
\* Processing symbol k failed: its query raised, run_backtest raised, or (in
\* the report script) printing its summary raised.
C17_Failed(k) ==
    \/ symbols[k].query = "raises"
    \/ /\ sim \in {"backtest_route", "report_script"}
       /\ symbols[k].rows # <<>>
       /\ \/ RunBacktestW(symbols[k].rows).pc = "error"
          \/ /\ sim = "report_script"
             /\ "final_value" \notin
                    DOMAIN RunBacktestW(symbols[k].rows).performance_metrics[1]

\* Symbol k has the rows its sweep asks for.
C17_HasData(k) ==
    IF sim = "stop_loss_route" THEN Len(symbols[k].rows) >= min_data_rows
    ELSE symbols[k].rows # <<>>

\* The output holds an error against symbol k.
C17_ErrorRecorded(k) ==
    \/ \E j \in 1..Len(all_results) :
          all_results[j].symbol = k /\ "error" \in DOMAIN all_results[j]
    \/ \E j \in 1..Len(printed) : printed[j].symbol = k

\* The output holds a result for symbol k.
C17_Reported(k) ==
    \E j \in 1..Len(all_results) :
        all_results[j].symbol = k /\ "error" \notin DOMAIN all_results[j]

\* C17: when the sweep has ended it has returned its output (nothing aborted
\* the run or its summary), every symbol whose processing failed has its
\* error recorded in the output, and every other symbol with data is reported.
C17_FailuresIsolated ==
    (sim \in {"backtest_route", "stop_loss_route", "report_script"}
     /\ pc = "returned") =>
        /\ response = "ok"
        /\ \A k \in 1..Len(symbols) :
              /\ C17_Failed(k) => C17_ErrorRecorded(k)
              /\ (~C17_Failed(k) /\ C17_HasData(k)) => C17_Reported(k)

\* ----------------------------------------------------------------------- C21
\* The Wyckoff scan of one bar attempts an entry: the position is None before
\* the bar or is closed by it, and the signal of the bar is not HOLD.
C21_AttemptW ==
    /\ sim = "W" /\ pc = "scan" /\ Len(df') = Len(df) + 1
    /\ current_position = <<>> \/ Len(trades') > Len(trades)
    /\ Last(signals').action # "HOLD"

\* The attempt of the Wyckoff scan sizes floor(capital * 0.95 / price) shares
\* and enters nothing when that is not positive; the entry leaves the capital.
C21_EntryW ==
    C21_AttemptW =>
        LET n == (current_capital' * 95) \div (Last(signals').price * 100)
        IN  /\ n <= 0 => current_position' = <<>>
            /\ n > 0 => /\ current_position' # <<>>
                        /\ current_position'[1].shares = n
                        /\ current_position'[1].entry_price = Last(signals').price
            /\ Len(trades') = Len(trades) => current_capital' = current_capital

\* _execute_trades handles a BUY signal from no position, with a next bar.
C21_AttemptE ==
    /\ sim = "E" /\ pc = "exec" /\ sig_i' = sig_i + 1
    /\ signals[sig_i].signal_type = "BUY" /\ current_position = <<>>
    /\ DateToIndex(df, signals[sig_i].date) + 1 <= Len(df)

\* The attempt of the moving-average simulator sizes floor(capital / open of
\* the next bar) shares and pays for them.
C21_EntryE ==
    C21_AttemptE =>
        LET price == df[DateToIndex(df, signals[sig_i].date) + 1].open
            n == current_capital \div price
        IN  /\ n <= 0 => UNCHANGED <<current_position, current_capital>>
            /\ n > 0 => /\ current_position' # <<>>
                        /\ current_position'[1].shares = n
                        /\ current_position'[1].entry_price = price
                        /\ current_capital' = current_capital - n * price

\* The stop-loss backtest handles a BUY signal from no position.
C21_AttemptS ==
    /\ sim = "S" /\ pc = "exec" /\ sig_i' = sig_i + 1
    /\ signals[sig_i].action = "BUY" /\ current_position = <<>>

\* The stop-loss backtest always enters, with the whole capital at the signal
\* price, and leaves the capital.
C21_EntryS ==
    C21_AttemptS =>
        /\ current_position' # <<>>
        /\ current_position'[1].entry_capital = current_capital
        /\ current_position'[1].entry_price = signals[sig_i].price
        /\ current_capital' = current_capital

\* C21 as stated: on every entry attempt from Flat the share count is the
\* integer floor(capital * fraction / price); a count <= 0 opens nothing and
\* leaves the capital, else the position holds that many shares; in all three
\* simulators.
C21_FloorShares ==
    [][/\ C21_EntryW
       /\ C21_EntryE
       /\ C21_EntryS
       /\ C21_AttemptS => SharesS(current_position'[1]).rest = 0]_vars

\* C21 as the code has it: the Wyckoff and the moving-average simulator floor
\* the share count (of 95% and of all the capital) and enter nothing when it
\* is not positive; the stop-loss backtest always enters with the unrounded
\* capital / price.
C21_EntrySizing ==
    [][C21_EntryW /\ C21_EntryE /\ C21_EntryS]_vars

\* The Wyckoff scan attempted an entry on its last bar with a share count
\* that is not positive, and is flat.
C21_Witness ==
    /\ sim = "W" /\ pc = "scan" /\ signals # <<>>
    /\ Last(signals).action # "HOLD"
    /\ current_position = <<>>
    /\ (current_capital * 95) \div (Last(signals).price * 100) <= 0

\* ------------------------------------------------------------------- C24
\* A step of the moving-average signal loop inside one trade: the trade is
\* open before the bar and still open after it.
C24_SameTrade == sim = "E" /\ pc = "scan" /\ in_trade /\ in_trade'

\* C24: while a moving-average trade is open the trailing stop only ratchets
\* upward: from one bar to the next within the same trade the highest close
\* since entry and the trailing stop never decrease, whatever the ATR does.
C24_StopOnlyRatchetsUp ==
    [][C24_SameTrade =>
          /\ highest_price_since_entry'[1] >= highest_price_since_entry[1]
          /\ current_trailing_stop'[1] >= current_trailing_stop[1]]_vars

\* ------------------------------------------------------------------- C25
\* The bar a step of the moving-average signal loop reads closes below the
\* 21 EMA after a close at or above it, or closes below the trailing stop.
C25_FreshCrossDown ==
    /\ Last(df').close * 1000 < Last(df').ema_21
    /\ Last(df).close * 1000 >= Last(df).ema_21

C25_BelowTrailingStop ==
    /\ current_trailing_stop # <<>>
    /\ Last(df').close * 1000 < current_trailing_stop[1]

C25_SellEmitted ==
    /\ Len(signals') = Len(signals) + 1
    /\ Last(signals').signal_type = "SELL"
    /\ Last(signals').date = Last(df').date

\* C25: while a moving-average trade is open, a SELL signal is emitted on
\* every bar that closes below the 21 EMA after a close at or above it on the
\* previous bar, or that closes below the trailing stop, also when the close
\* is below the 21 EMA without a fresh cross.
C25_SellOnEveryTrigger ==
    [][(sim = "E" /\ pc = "scan" /\ in_trade /\ df' # df
        /\ (C25_FreshCrossDown \/ C25_BelowTrailingStop)) => C25_SellEmitted]_vars

\* ------------------------------------------------------------------- C30
\* C30: in the phase-based backtest no signal carries phase Distribution
\* together with action Sell: a Distribution signal has a mean 20-bar volume
\* ratio below 0.8 and its action is Hold.
C30_DistributionIsHold ==
    sim = "W" =>
        \A k \in 1..Len(signals) :
            signals[k].phase = "Distribution" =>
                /\ signals[k].volume_ratio < 800
                /\ signals[k].action = "HOLD"

\* The scan has produced a Distribution signal.
C30_Witness ==
    /\ sim = "W" /\ pc = "scan"
    /\ \E k \in 1..Len(signals) : signals[k].phase = "Distribution"

\* ------------------------------------------------------------------- C29
\* The keys of the metrics of a run with trades (lines 539-552), without
\* 'sharpe_ratio', which both dicts have and the model leaves out.
C29_MetricsKeys ==
    {"total_return", "total_return_percent", "final_value", "total_trades",
     "winning_trades", "losing_trades", "win_rate", "avg_win", "avg_loss",
     "profit_factor", "max_drawdown_percent"}

\* C29: the performance_metrics of every run_backtest result has the same
\* keys whether or not a trade occurred ('final_value' and
\* 'max_drawdown_percent' among them), and the multi-symbol summary that
\* reads them reaches its end.
C29_SameKeysWithoutTrades ==
    sim \in {"backtest_route", "report_script"} =>
        /\ \A j \in 1..Len(all_results) :
              "performance_metrics" \in DOMAIN all_results[j] =>
                  DOMAIN all_results[j].performance_metrics = C29_MetricsKeys
        /\ pc = "returned" => response = "ok"

\* ------------------------------------------------------------------- C28
\* The buckets the sweep backtests: the whole series and every calendar
\* bucket, each with the signals dated within it.
C28_Buckets ==
    {Period(df[1].date, Last(df).date)}
    \cup {PeriodsOf(df, "monthly")[k] : k \in 1..Len(PeriodsOf(df, "monthly"))}
    \cup {PeriodsOf(df, "quarterly")[k] : k \in 1..Len(PeriodsOf(df, "quarterly"))}
    \cup {PeriodsOf(df, "yearly")[k] : k \in 1..Len(PeriodsOf(df, "yearly"))}

C28_Result(period, q) ==
    BacktestWithStopLoss(df, PeriodSignals(signals, period), q,
                         period.period_start, period.period_end)

\* Trade k of two results is the same trade but for the exit price, which is
\* the price of the closing signal or, under it, the stop price of the
\* candidate, and differs only for a trade closed by a Sell signal.
C28_SameTrade(a, b, pa) ==
    /\ a.entry_date = b.entry_date
    /\ a.exit_date = b.exit_date
    /\ a.entry_price = b.entry_price
    /\ (a.exit_reason = "Period End") = (b.exit_reason = "Period End")
    /\ a.exit_reason = "Period End" => a.exit_price = b.exit_price
    /\ a.exit_reason = "Stop Loss" =>
          /\ a.exit_price = StopLossPrice(a.entry_price, pa)
          /\ b.exit_reason = "Signal" => b.exit_price <= a.exit_price
    /\ (a.exit_reason = "Signal" /\ b.exit_reason = "Signal") =>
          a.exit_price = b.exit_price

C28_SameTrades(ra, rb) ==
    /\ Len(ra.trades) = Len(rb.trades)
    /\ \A k \in 1..Len(ra.trades) :
          /\ C28_SameTrade(ra.trades[k], rb.trades[k], ra.optimal_stop_loss)
          /\ C28_SameTrade(rb.trades[k], ra.trades[k], rb.optimal_stop_loss)
    /\ ra.total_trades = rb.total_trades
    /\ ra.winning_trades = rb.winning_trades
    /\ ra.losing_trades = rb.losing_trades
    /\ ra.win_rate = rb.win_rate

\* C28: for a fixed bucket and signal list every candidate percentage gives
\* the same sequence of trades (entry and exit dates, entry prices), hence the
\* same total, winning and losing counts and win rate; two candidates differ
\* only in the exit price of trades closed by a Sell signal, floored at
\* entry_price * (1 - pct), and in what derives from it.
C28_SameTradesForEveryCandidate ==
    (sim = "S" /\ pc = "optimized") =>
        \A period \in C28_Buckets :
            \A q \in test_intervals :
                C28_SameTrades(C28_Result(period, 2), C28_Result(period, q))

\* Two candidates close the same trade of the whole series at different
\* prices: one at its stop price, the other at the price of the Sell signal.
C28_Witness ==
    /\ sim = "S" /\ pc = "optimized"
    /\ \E q \in test_intervals :
          LET ra == C28_Result(Period(df[1].date, Last(df).date), 2)
              rb == C28_Result(Period(df[1].date, Last(df).date), q)
          IN  \E k \in 1..Len(ra.trades) :
                 /\ ra.trades[k].exit_reason = "Stop Loss"
                 /\ rb.trades[k].exit_reason = "Signal"
                 /\ rb.trades[k].exit_price < ra.trades[k].exit_price

\* ------------------------------------------------------------------- C23
\* The classification table: the phase of the first rule that matches.
C23_Table(m) ==
    CASE Above(m.price_change_pct, 80) /\ Above(m.price_vs_sma, 20)
         /\ Above(m.volume_ratio, 1100) -> "Markup"
      [] OTHER ->
    CASE Below(m.price_change_pct, 0 - 80) /\ Below(m.price_vs_sma, 0 - 20) -> "Markdown"
      [] OTHER ->
    CASE Abs(m.price_change_pct[1]) * 1000 < 50 * m.price_change_pct[2]
         /\ Below(m.price_range_pct, 150) /\ Above(m.volume_ratio, 1000)
         /\ Above(m.volume_trend, 1050) -> "Accumulation"
      [] Abs(m.price_change_pct[1]) * 1000 < 50 * m.price_change_pct[2]
         /\ Below(m.price_range_pct, 150) /\ Above(m.volume_ratio, 1000)
         /\ Below(m.volume_trend, 950) -> "Distribution"
      [] OTHER ->
    CASE Above(m.price_change_pct, 30) /\ Above(m.price_vs_sma, 10) -> "Markup"
      [] OTHER ->
    CASE Below(m.price_change_pct, 0 - 30) /\ Below(m.price_vs_sma, 0 - 10) -> "Markdown"
      [] OTHER -> "Unclassified"

\* The backtest scan has classified the window that ends at the last bar.
C23_Scanned ==
    /\ sim = "W" /\ pc = "scan" /\ signals # <<>>
    /\ Last(signals).date = Last(df).date

\* C23: both classifiers of a 20-bar window return the phase of the table:
\* _classify_phase on the window's quantities, and the backtest scan's
\* per-bar classification of the same window.
C23_FirstMatchingRule ==
    C23_Scanned =>
        /\ Title(ClassifyPhase(AssessMetrics(df))) = C23_Table(AssessMetrics(df))
        /\ Last(signals).phase = C23_Table(AssessMetrics(df))

\* The part of C23 about _classify_phase alone.
C23_ClassifyPhaseOnly ==
    C23_Scanned =>
        Title(ClassifyPhase(AssessMetrics(df))) = C23_Table(AssessMetrics(df))

\* ------------------------------------------------------------------- C22
\* The signal table; volume_ratio is <<>> for NaN, else <<the ratio in 1/1000>>.
C22_Table(phase, volume_ratio) ==
    CASE phase = "Accumulation" ->
            IF volume_ratio # <<>> /\ volume_ratio[1] > 1500 THEN "BUY" ELSE "HOLD"
      [] phase = "Distribution" ->
            IF volume_ratio # <<>> /\ volume_ratio[1] > 1500 THEN "SELL" ELSE "HOLD"
      [] phase = "Markup" -> "BUY"
      [] phase = "Markdown" -> "SELL"
      [] phase = "Unclassified" -> "HOLD"

\* The phase of the window the analysis service assessed.
C22_CurrentPhase == Title(ClassifyPhase(AssessMetrics(df)))

\* C22: the signal action is the table's entry for (phase, volume_ratio): in
\* every signal of the backtest scan, and in the signals of the analysis
\* service, which returns them for every phase, Unclassified (Hold) included.
C22_SignalFromTable ==
    /\ sim = "W" =>
          \A k \in 1..Len(signals) :
              signals[k].action = C22_Table(signals[k].phase, <<signals[k].volume_ratio>>)
    /\ (sim = "A" /\ pc \in {"done", "error"}) =>
          /\ pc = "done"
          /\ Metrics.signals.primary_signal
                = C22_Table(C22_CurrentPhase, Metrics.signals.recent_volume)

\* The part of C22 about the windows that have a phase.
C22_ClassifiedFromTable ==
    /\ sim = "W" =>
          \A k \in 1..Len(signals) :
              signals[k].action = C22_Table(signals[k].phase, <<signals[k].volume_ratio>>)
    /\ (sim = "A" /\ pc = "done") =>
          Metrics.signals.primary_signal
              = C22_Table(C22_CurrentPhase, Metrics.signals.recent_volume)

\* ------------------------------------------------------------------- C26
\* The bounds as stated: the bar right after (before) the nearest bar that
\* leaves the band, the first (last) bar of the series when none does.
C26_Bounds(s, center) ==
    LET support == MinLow(s, center - 15, center + 14)
        resistance == MaxHigh(s, center - 15, center + 14)
        before == {i \in 1..(center - 1) : LeavesBand(s[i], support, resistance)}
        after == {i \in (center + 1)..Len(s) : LeavesBand(s[i], support, resistance)}
    IN  <<IF before = {} THEN 1
          ELSE (CHOOSE i \in before : \A j \in before : j <= i) + 1,
          IF after = {} THEN Len(s)
          ELSE (CHOOSE i \in after : \A j \in after : j >= i) - 1>>

C26_Centres == (window_size + 1)..(Len(df) - window_size)

\* No bar of the series leaves the band of any centre.
C26_NeverLeaves ==
    \A center \in C26_Centres :
        C26_Bounds(df, center) = <<1, Len(df)>>

\* C26: _find_trading_range_bounds returns the stated bounds for every
\* centre, and a series that never leaves the band and has a qualifying
\* window yields a range, every range spanning the whole series.
C26_BoundsExpandOutward ==
    (sim = "A" /\ pc = "assess") =>
        /\ \A center \in C26_Centres :
              FindTradingRangeBounds(df, center) = C26_Bounds(df, center)
        /\ (C26_NeverLeaves
            /\ \E center \in C26_Centres :
                  IsTradingRange(df, center - window_size, center + window_size - 1)) =>
              /\ Metrics.trading_ranges # <<>>
              /\ \A k \in 1..Len(Metrics.trading_ranges) :
                    /\ Metrics.trading_ranges[k].start_idx = 1
                    /\ Metrics.trading_ranges[k].end_idx = Len(df)

\* The part of C26 about a centre with a leaving bar on each side.
C26_BetweenLeavingBars ==
    (sim = "A" /\ pc = "assess") =>
        \A center \in C26_Centres :
            (/\ C26_Bounds(df, center)[1] # 1
             /\ C26_Bounds(df, center)[2] # Len(df)) =>
                FindTradingRangeBounds(df, center) = C26_Bounds(df, center)

\* ------------------------------------------------------------------- C27
\* Row k of range tr pierces the range support by the spring threshold;
\* row k closes at least 2% above the range resistance.
C27_Pierces(tr, k) == df[k].low * 100 <= tr.support * (100 - spring_threshold)
C27_BreaksOut(tr, k) == df[k].close * 100 >= tr.resistance * 102

C27_Accumulation(tr) ==
    DetermineTradingRangeType(df, tr.start_idx, tr.end_idx) = "accumulation"

\* C27: within an accumulation range, Phase C is tagged whenever some bar's
\* low pierces the range support by at least the spring threshold, and Phase
\* D whenever some bar closes at least 2% above the range resistance.
C27_SpringAndMarkupTagged ==
    (sim = "A" /\ pc = "assess") =>
        \A j \in 1..Len(Metrics.trading_ranges) :
            LET tr == Metrics.trading_ranges[j] IN
            C27_Accumulation(tr) =>
                /\ (\E k \in tr.start_idx..tr.end_idx : C27_Pierces(tr, k))
                      => "Phase C - Spring Test" \in Metrics.phases[j]
                /\ (\E k \in tr.start_idx..tr.end_idx : C27_BreaksOut(tr, k))
                      => "Phase D - Markup" \in Metrics.phases[j]

\* No range of any analysed series carries a Phase C or a Phase D tag.
C27_NeverTagged ==
    (sim = "A" /\ pc = "assess") =>
        \A j \in 1..Len(Metrics.phases) :
            /\ "Phase C - Spring Test" \notin Metrics.phases[j]
            /\ "Phase D - Markup" \notin Metrics.phases[j]

====
